---- MODULE Spec2Model ----
(***************************************************************************)
(* A model of thoughtPolice's ingestion engine (src/lib/services/          *)
(* redditApi.ts) and analysis orchestrator (src/lib/services/              *)
(* analysisService.ts).                                                    *)
(*                                                                         *)
(* Representation notes.                                                   *)
(*  - JS null/undefined is the string Null; a cursor is Null, "" or a      *)
(*    token.  An options object is a function whose domain holds only the  *)
(*    fields that were passed.                                             *)
(*  - The children of a listing page are run-length encoded: a run         *)
(*    [body, created_utc, n] stands for n consecutive children with that   *)
(*    body and timestamp, so that pages of 100 records and the run-level   *)
(*    caps of 1000 and 5000 stay reachable.  The length of a list of runs  *)
(*    is the sum of their n.  The arrays getFullUserData collects are      *)
(*    kept by their length.                                                *)
(*  - A user name is a sequence of one-character strings.                  *)
(***************************************************************************)
EXTENDS Integers, Sequences, FiniteSets, TLC

VARIABLES
    it,       \* the running ingestion generator (iterateComments / iteratePosts)
    page,     \* the listing page the generator holds while suspended at its yield
    batch,    \* the batch handed to the consumer at the yield
    req,      \* the page request in flight (makeRequest awaited), or NoReq
    cons,     \* a plain for-await consumer of one stream
    tr,       \* what has been observed of the running stream
    full,     \* the running getFullUserData call
    budget,   \* the token budget singleton
    verbose,  \* AnalysisService.verbose
    au,       \* the last analyzeUser call: its arguments, what it met, its outcome
    net,      \* the requests the analysis service has issued, in order
    st,       \* the running analyzeUserStream generator
    events,   \* the events analyzeUserStream has yielded, in order
    bt,       \* the running analyzeBatch call
    mr,       \* the running makeRequest call and its HTTP attempts
    rt,       \* the POST /api/analyze handler and the answer it gave
    cf,       \* a findings list and the aggregate confidence computed for it
    cache,    \* the result cache singleton: the Analysis stored under each key
    gc,       \* the last getCachedAnalysis call and what it returned
    bk,       \* the budget period: what was recorded in it, the last status read
    pv        \* the last getUserPreview call: what it met and what it returned

ingestVars == <<it, page, batch, req, cons, tr, full>>
clientVars == <<budget, verbose, au, net, st, events>>
storeVars  == <<cache, gc, bk, pv>>
extraVars  == <<bt, mr, rt, cf, cache, gc, bk, pv>>
vars == <<it, page, batch, req, cons, tr, full, budget, verbose, au, net, st, events,
          bt, mr, rt, cf, cache, gc, bk, pv>>

(***************************************************************************)
(* Values                                                                  *)
(***************************************************************************)
Null == "null"

Truthy(s) == s /= Null /\ s /= ""

DaySec == 24 * 60 * 60

\* the moment of the run (Date.now()), in seconds
NowSec == 500 * DaySec

Opt(options, field, default) ==
    IF field \in DOMAIN options THEN options[field] ELSE default

NoOptions == [f \in {} |-> 0]

\* route.ts passes {maxItems: 5000, maxAge: 365}; the others exercise the
\* defaults and a small cap
OptionsSet ==
    { [maxItems |-> 5000, maxAge |-> 365],
      [maxItems |-> 150, maxAge |-> 30],
      NoOptions }

RECURSIVE TotalLen(_)
TotalLen(runs) ==
    IF runs = <<>> THEN 0 ELSE Head(runs).n + TotalLen(Tail(runs))

(***************************************************************************)
(* The upstream listing endpoint: what one makeRequest can produce         *)
(***************************************************************************)
Limit == 100

TextLen20 == "exactly twenty chars"
TextLen21 == "twenty-one characters"
TextLong  == "a comment that is comfortably longer than twenty characters"

\* one run of n children of a listing: comments carry body, posts selftext
Child(kind, text, created, n) ==
    IF kind = "comments"
    THEN [body |-> text, created_utc |-> created, n |-> n]
    ELSE [selftext |-> text, created_utc |-> created, n |-> n]

\* a page of Limit records none of which passes the filter
ChildrenAllInvalid(kind, cutoff) ==
    << Child(kind, "[deleted]", cutoff + 1, 40),
       Child(kind, "[removed]", cutoff + 1, 30),
       Child(kind, "",          cutoff + 1, 10),
       Child(kind, TextLen20,   cutoff + 1, 10),
       Child(kind, TextLong,    cutoff - 1, 10) >>

\* a page of Limit records, 99 of them valid (one exactly at the cutoff)
ChildrenMixed(kind, cutoff) ==
    << Child(kind, TextLen21,   cutoff,     60),
       Child(kind, "[deleted]", cutoff + 5, 1),
       Child(kind, TextLong,    cutoff + 1, 39) >>

CursorPairs ==
    { <<"t1_next", Null>>, <<Null, "t1_prev">>, <<"t1_next", "t1_prev">>,
      <<Null, Null>>, <<"", "">> }

ErrorResponse     == [t |-> "error"]
MalformedResponse == [t |-> "malformed"]
NoDataResponse    == [t |-> "nodata"]

PageResponse(children, cur) ==
    [t |-> "page", children |-> children, after |-> cur[1], before |-> cur[2]]

\* everything the upstream can answer to a listing request
Responses(kind, cutoff) ==
    { ErrorResponse, MalformedResponse, NoDataResponse }
    \cup { PageResponse(<<>>, <<Null, Null>>) }
    \cup { PageResponse(ch, cur) :
             ch \in { ChildrenAllInvalid(kind, cutoff), ChildrenMixed(kind, cutoff) },
             cur \in CursorPairs }

NoPage == [t |-> "none"]
NoReq  == [path |-> "none"]

(***************************************************************************)
(* iterateComments / iteratePosts: the generator's locals and its steps    *)
(* between suspension points (await makeRequest, yield, await delay)       *)
(***************************************************************************)
DefaultMaxItemsComments == 10000
DefaultMaxItemsPosts    == 2000
DefaultMaxAge           == 365
MaxRequestsComments     == 50
MaxRequestsPosts        == 20

NoIterator ==
    [fn |-> "none", pc |-> "done", maxItems |-> 0, cutoffDate |-> 0,
     totalFetched |-> 0, after |-> Null, before |-> Null, requestCount |-> 0]

\* the locals of a fresh iterateComments(username, options) generator
IterateCommentsInit(options) ==
    [fn           |-> "iterateComments",
     pc           |-> "start",
     maxItems     |-> Opt(options, "maxItems", DefaultMaxItemsComments),
     cutoffDate   |-> NowSec - Opt(options, "maxAge", DefaultMaxAge) * DaySec,
     totalFetched |-> 0,
     after        |-> Null,
     before       |-> Null,
     requestCount |-> 0]

\* the locals of a fresh iteratePosts(username, options) generator
IteratePostsInit(options) ==
    [fn           |-> "iteratePosts",
     pc           |-> "start",
     maxItems     |-> Opt(options, "maxItems", DefaultMaxItemsPosts),
     cutoffDate   |-> NowSec - Opt(options, "maxAge", DefaultMaxAge) * DaySec,
     totalFetched |-> 0,
     after        |-> Null,
     before       |-> Null,
     requestCount |-> 0]

\* the ceiling test off by one
CommentsLoopGuardOffByOne(g) ==
    g.totalFetched < g.maxItems /\ g.requestCount <= MaxRequestsComments

\* the while condition of iterateComments
CommentsLoopGuard(g) ==
    g.totalFetched < g.maxItems /\ g.requestCount < MaxRequestsComments

\* the while condition of iteratePosts
PostsLoopGuard(g) ==
    g.totalFetched < g.maxItems /\ g.requestCount < MaxRequestsPosts

LoopGuard(g) ==
    IF g.fn = "iterateComments" THEN CommentsLoopGuard(g) ELSE PostsLoopGuard(g)

\* the URL of iterateComments without its backward cursor
CommentsUrlForwardOnly(g) ==
    [path   |-> "comments.json",
     after  |-> IF Truthy(g.after) THEN g.after ELSE Null,
     before |-> Null]

\* the URL of the next page request: a cursor is appended only when truthy
CommentsUrl(g) ==
    [path   |-> "comments.json",
     after  |-> IF Truthy(g.after) THEN g.after ELSE Null,
     before |-> IF Truthy(g.before) THEN g.before ELSE Null]

PostsUrl(g) ==
    [path   |-> "submitted.json",
     after  |-> IF Truthy(g.after) THEN g.after ELSE Null,
     before |-> Null]

Url(g) == IF g.fn = "iterateComments" THEN CommentsUrl(g) ELSE PostsUrl(g)

\* the length test admitting a body of exactly 20 characters
CommentsFilterLenGeq(children, cutoffDate) ==
    LET keep(comment) ==
            /\ Truthy(comment.body)
            /\ comment.body /= "[deleted]"
            /\ comment.body /= "[removed]"
            /\ Len(comment.body) >= 20
            /\ comment.created_utc >= cutoffDate
    IN  SelectSeq(children, keep)

\* the filter of iterateComments over the children of a page
CommentsFilter(children, cutoffDate) ==
    LET keep(comment) ==
            /\ Truthy(comment.body)
            /\ comment.body /= "[deleted]"
            /\ comment.body /= "[removed]"
            /\ Len(comment.body) > 20
            /\ comment.created_utc >= cutoffDate
    IN  SelectSeq(children, keep)

\* the filter of iteratePosts over the children of a page
PostsFilter(children, cutoffDate) ==
    LET keep(post) ==
            /\ Truthy(post.selftext)
            /\ post.selftext /= "[deleted]"
            /\ post.selftext /= "[removed]"
            /\ Len(post.selftext) > 20
            /\ post.created_utc >= cutoffDate
    IN  SelectSeq(children, keep)

Filter(g, children) ==
    IF g.fn = "iterateComments"
    THEN CommentsFilter(children, g.cutoffDate)
    ELSE PostsFilter(children, g.cutoffDate)

\* the request counted only when the page yielded a batch
CommentsAfterYieldCountsYieldsOnly(g, data, n) ==
    LET g1 == [g EXCEPT !.totalFetched = @ + n,
                        !.after = data.after,
                        !.before = data.before]
    IN  IF ~Truthy(g1.after) /\ ~Truthy(g1.before)
        THEN [g1 EXCEPT !.pc = "done"]
        ELSE [g1 EXCEPT !.requestCount = IF n > 0 THEN @ + 1 ELSE @, !.pc = "delay"]

\* iterateComments after its yield: count the batch, take the page's cursors,
\* stop when both are falsy, else count the request and sleep
CommentsAfterYield(g, data, n) ==
    LET g1 == [g EXCEPT !.totalFetched = @ + n,
                        !.after = data.after,
                        !.before = data.before]
    IN  IF ~Truthy(g1.after) /\ ~Truthy(g1.before)
        THEN [g1 EXCEPT !.pc = "done"]
        ELSE [g1 EXCEPT !.requestCount = @ + 1, !.pc = "delay"]

\* iteratePosts after its yield: only the forward cursor is read
PostsAfterYield(g, data, n) ==
    LET g1 == [g EXCEPT !.totalFetched = @ + n,
                        !.after = data.after]
    IN  IF ~Truthy(g1.after)
        THEN [g1 EXCEPT !.pc = "done"]
        ELSE [g1 EXCEPT !.requestCount = @ + 1, !.pc = "delay"]

AfterYield(g, data, n) ==
    IF g.fn = "iterateComments"
    THEN CommentsAfterYield(g, data, n)
    ELSE PostsAfterYield(g, data, n)

\* the catch going on to the next iteration instead of breaking
OnFetchErrorContinue(g) == [g EXCEPT !.requestCount = @ + 1, !.pc = "delay"]

\* the catch of the loop body: log and break
OnFetchError(g) == [g EXCEPT !.pc = "done"]

\* the loop body from the answer of makeRequest to the next suspension point
OnResponse(g, r) ==
    IF r.t \in {"error", "malformed"} THEN OnFetchError(g)
    ELSE IF r.t = "nodata" \/ r.children = <<>> THEN [g EXCEPT !.pc = "done"]
    ELSE IF TotalLen(Filter(g, r.children)) > 0 THEN [g EXCEPT !.pc = "yield"]
    ELSE AfterYield(g, r, 0)

\* the top of the while loop: issue the next request or fall out of the loop
LoopHead(g) ==
    IF LoopGuard(g) THEN [g EXCEPT !.pc = "request"] ELSE [g EXCEPT !.pc = "done"]

Kind(g) == IF g.fn = "iterateComments" THEN "comments" ELSE "posts"

(***************************************************************************)
(* The analysis service before any call                                    *)
(***************************************************************************)
NoAnalysis == [status |-> "none"]

NoCall ==
    [pc |-> "idle", username |-> <<>>, budgetQuery |-> [threw |-> FALSE],
     outcome |-> [t |-> "none"], caught |-> Null, analysis |-> NoAnalysis]

NoStream ==
    [pc |-> "idle", username |-> <<>>, valid |-> FALSE, previewFailed |-> FALSE]

NoBatch ==
    [pc |-> "idle", usernames |-> <<>>, i |-> 0, results |-> <<>>,
     inProgress |-> 0, started |-> 0, waitedMs |-> 0]

\* the result cache holds nothing
NoEntries == [k \in {} |-> NoAnalysis]

\* no cache operation yet: the last operation, its name argument, what it
\* returned, the entries it met, and the last put not followed by a clear
NoLookup ==
    [pc |-> "idle", name |-> <<>>, result |-> NoAnalysis, before |-> NoEntries,
     putName |-> <<>>, putValue |-> NoAnalysis]

\* the budget period at its start: nothing recorded by either of the two
\* parallel analyses, no operation yet, no status read
NoPeriod ==
    [recorded |-> <<0, 0>>, calls |-> 0, last |-> "none",
     before |-> [maxDollar |-> 0, warningThreshold |-> 0, spent |-> 0],
     status |-> [spend |-> 0, ceiling |-> 0, percentage |-> 0, isWarning |-> FALSE]]

\* no getUserPreview call yet: which implementation ran, the profile it
\* read, which of its two fetches failed and how, and what it returned
NoPreview ==
    [pc |-> "idle", impl |-> "none",
     user |-> [created_utc |-> 0, comment_karma |-> 0, total_karma |-> 0],
     failed |-> "none", how |-> "none",
     result |-> [exists |-> FALSE]]

ExtraIdle ==
    /\ bt = NoBatch
    /\ mr = [pc |-> "idle", lists429 |-> FALSE, trail |-> <<>>, result |-> Null]
    /\ rt = [pc |-> "idle", verbose |-> FALSE]
    /\ cf = [pc |-> "idle", contradictions |-> <<>>, result |-> 0]
    /\ cache = NoEntries
    /\ gc = NoLookup
    /\ bk = NoPeriod
    /\ pv = NoPreview

ClientIdle ==
    /\ budget = [maxDollar |-> 100, warningThreshold |-> 80, spent |-> 0]
    /\ verbose = FALSE
    /\ au = NoCall
    /\ net = <<>>
    /\ st = NoStream
    /\ events = <<>>

(***************************************************************************)
(* One stream and its consumer                                             *)
(***************************************************************************)
\* what a stream has done: its fetches, the answers to them, its delays and
\* yields, and of the last answer its kind, whether it had children, and
\* its two cursors
NoTrace ==
    [fetches |-> 0, delays |-> 0, yields |-> 0, filteredOut |-> 0,
     failed |-> FALSE, fetchesAtFailure |-> 0, last |-> "none",
     answers |-> 0, answer |-> "none", children |-> FALSE,
     after |-> Null, before |-> Null]

NoConsumer == [items |-> 0, batches |-> 0, broke |-> FALSE]

NoFull ==
    [pc |-> "idle", options |-> NoOptions, user |-> Null,
     comments |-> 0, posts |-> 0]

\* the generator reaches g1 at the top of its loop: the request it issues
IssueRequest(g1, t) ==
    /\ it' = g1
    /\ req' = IF g1.pc = "request" THEN Url(g1) ELSE NoReq
    /\ tr' = IF g1.pc = "request"
             THEN [t EXCEPT !.fetches = @ + 1, !.last = "fetch"]
             ELSE t

\* the generator reaches g1 after its yield: the delay it starts
StartDelay(g1, t) ==
    /\ it' = g1
    /\ tr' = IF g1.pc = "delay"
             THEN [t EXCEPT !.delays = @ + 1, !.last = "delay"]
             ELSE t

\* the consumer's first next(): the generator body runs to its first await
FirstNext ==
    /\ it.pc = "start"
    /\ IssueRequest(LoopHead(it), tr)
    /\ UNCHANGED <<page, batch, cons, full>>
    /\ UNCHANGED clientVars
    /\ UNCHANGED extraVars

\* makeRequest settles with r: the loop body runs to the yield, to the delay
\* or out of the loop
Response ==
    /\ it.pc = "request"
    /\ \E r \in Responses(Kind(it), it.cutoffDate) :
         LET g1 == OnResponse(it, r)
             t1 == [tr EXCEPT
                      !.failed = @ \/ r.t = "error",
                      !.fetchesAtFailure = IF r.t = "error" THEN tr.fetches ELSE @,
                      !.yields = IF g1.pc = "yield" THEN @ + 1 ELSE @,
                      !.filteredOut =
                          IF r.t = "page" /\ r.children /= <<>> /\ g1.pc /= "yield"
                          THEN @ + 1 ELSE @,
                      !.answers = @ + 1,
                      !.answer = r.t,
                      !.children = r.t = "page" /\ r.children /= <<>>,
                      !.after = IF r.t = "page" THEN r.after ELSE Null,
                      !.before = IF r.t = "page" THEN r.before ELSE Null]
         IN  /\ StartDelay(g1, t1)
             /\ page' = IF g1.pc = "yield" THEN r ELSE NoPage
             /\ batch' = IF g1.pc = "yield" THEN Filter(it, r.children) ELSE <<>>
    /\ req' = NoReq
    /\ UNCHANGED <<cons, full>>
    /\ UNCHANGED clientVars
    /\ UNCHANGED extraVars

\* delay(1000) elapses: back to the top of the loop
DelayElapsed ==
    /\ it.pc = "delay"
    /\ IssueRequest(LoopHead(it), tr)
    /\ UNCHANGED <<page, batch, cons, full>>
    /\ UNCHANGED clientVars
    /\ UNCHANGED extraVars

\* a for-await consumer takes the batch and asks for the next one
ConsumerNext ==
    /\ it.pc = "yield"
    /\ cons' = [cons EXCEPT !.items = @ + TotalLen(batch), !.batches = @ + 1]
    /\ StartDelay(AfterYield(it, page, TotalLen(batch)), tr)
    /\ page' = NoPage
    /\ batch' = <<>>
    /\ UNCHANGED <<req, full>>
    /\ UNCHANGED clientVars
    /\ UNCHANGED extraVars

\* the consumer breaks and the generator still runs on to its delay
ConsumerBreakRunsOn ==
    /\ it.pc = "yield"
    /\ cons' = [cons EXCEPT !.items = @ + TotalLen(batch), !.batches = @ + 1,
                            !.broke = TRUE]
    /\ StartDelay(AfterYield(it, page, TotalLen(batch)), tr)
    /\ page' = NoPage
    /\ batch' = <<>>
    /\ UNCHANGED <<req, full>>
    /\ UNCHANGED clientVars
    /\ UNCHANGED extraVars

\* a for-await consumer takes the batch and breaks: the generator returns
\* at its yield
ConsumerBreak ==
    /\ it.pc = "yield"
    /\ cons' = [cons EXCEPT !.items = @ + TotalLen(batch), !.batches = @ + 1,
                            !.broke = TRUE]
    /\ it' = [it EXCEPT !.pc = "done"]
    /\ page' = NoPage
    /\ batch' = <<>>
    /\ UNCHANGED <<req, tr, full>>
    /\ UNCHANGED clientVars
    /\ UNCHANGED extraVars

InitIter ==
    /\ \E options \in OptionsSet :
         it \in {IterateCommentsInit(options), IteratePostsInit(options)}
    /\ page = NoPage
    /\ batch = <<>>
    /\ req = NoReq
    /\ cons = NoConsumer
    /\ tr = NoTrace
    /\ full = NoFull
    /\ ClientIdle
    /\ ExtraIdle

NextIter ==
    \/ FirstNext
    \/ Response
    \/ DelayElapsed
    \/ ConsumerNext
    \/ ConsumerBreak

SpecIter == InitIter /\ [][NextIter]_vars

(***************************************************************************)
(* getUserInfo and getFullUserData                                         *)
(***************************************************************************)
FullDefaultMaxItems == 5000
FullPostsCap        == 1000

\* what the upstream can answer to the about.json request
UserResponses ==
    { ErrorResponse, NoDataResponse, [t |-> "user", name |-> "bob"] }

\* getUserInfo: makeRequest's error propagates, a body without data is
\* 'User not found'
GetUserInfo(r) ==
    IF r.t = "error" THEN [threw |-> TRUE, value |-> "Failed to fetch data"]
    ELSE IF r.t = "nodata" THEN [threw |-> TRUE, value |-> "User not found"]
    ELSE [threw |-> FALSE, value |-> r.name]

\* options.maxItems || 5000
FullCommentsCap(options) ==
    IF Opt(options, "maxItems", 0) /= 0
    THEN options.maxItems
    ELSE FullDefaultMaxItems

\* getFullUserData(username, options) is called: getUserInfo is awaited
GetFullUserData ==
    /\ full.pc = "idle"
    /\ \E options \in OptionsSet :
         full' = [full EXCEPT !.pc = "userInfo", !.options = options]
    /\ req' = [path |-> "about.json"]
    /\ UNCHANGED <<it, page, batch, cons, tr>>
    /\ UNCHANGED clientVars
    /\ UNCHANGED extraVars

\* getUserInfo settles and its error is not rethrown
FullUserInfoSwallowed ==
    /\ full.pc = "userInfo"
    /\ \E r \in UserResponses :
         /\ full' = [full EXCEPT !.pc = "comments",
                                 !.user = IF GetUserInfo(r).threw
                                          THEN Null ELSE GetUserInfo(r).value]
         /\ IssueRequest(LoopHead(IterateCommentsInit(full.options)), NoTrace)
    /\ UNCHANGED <<page, batch, cons>>
    /\ UNCHANGED clientVars
    /\ UNCHANGED extraVars

\* getUserInfo settles: rethrow its error, or start collecting the comments
FullUserInfo ==
    /\ full.pc = "userInfo"
    /\ \E r \in UserResponses :
         LET u == GetUserInfo(r)
         IN  IF u.threw
             THEN /\ full' = [full EXCEPT !.pc = "threw"]
                  /\ req' = NoReq
                  /\ UNCHANGED <<it, tr>>
             ELSE /\ full' = [full EXCEPT !.pc = "comments", !.user = u.value]
                  /\ IssueRequest(LoopHead(IterateCommentsInit(full.options)), NoTrace)
    /\ UNCHANGED <<page, batch, cons>>
    /\ UNCHANGED clientVars
    /\ UNCHANGED extraVars

\* the body of the two for-await loops: push the batch, break at the cap
FullConsume ==
    /\ full.pc \in {"comments", "posts"}
    /\ it.pc = "yield"
    /\ LET n == TotalLen(batch)
           f1 == IF full.pc = "comments"
                 THEN [full EXCEPT !.comments = @ + n]
                 ELSE [full EXCEPT !.posts = @ + n]
           stop == IF full.pc = "comments"
                   THEN f1.comments >= FullCommentsCap(full.options)
                   ELSE f1.posts >= FullPostsCap
       IN  /\ full' = f1
           /\ IF stop
              THEN it' = [it EXCEPT !.pc = "done"] /\ tr' = tr
              ELSE StartDelay(AfterYield(it, page, n), tr)
    /\ page' = NoPage
    /\ batch' = <<>>
    /\ UNCHANGED <<req, cons>>
    /\ UNCHANGED clientVars
    /\ UNCHANGED extraVars

\* a for-await loop ends: collect the posts next, or return
FullStreamDone ==
    /\ full.pc \in {"comments", "posts"}
    /\ it.pc = "done"
    /\ IF full.pc = "comments"
       THEN /\ full' = [full EXCEPT !.pc = "posts"]
            /\ IssueRequest(LoopHead(IteratePostsInit(full.options)), NoTrace)
       ELSE /\ full' = [full EXCEPT !.pc = "returned"]
            /\ UNCHANGED <<it, req, tr>>
    /\ UNCHANGED <<page, batch, cons>>
    /\ UNCHANGED clientVars
    /\ UNCHANGED extraVars

InitFull ==
    /\ it = NoIterator
    /\ page = NoPage
    /\ batch = <<>>
    /\ req = NoReq
    /\ cons = NoConsumer
    /\ tr = NoTrace
    /\ full = NoFull
    /\ ClientIdle
    /\ ExtraIdle

NextFull ==
    \/ GetFullUserData
    \/ FullUserInfo
    \/ Response
    \/ DelayElapsed
    \/ FullConsume
    \/ FullStreamDone

SpecFull == InitFull /\ [][NextFull]_vars

FairSpecIter == SpecIter /\ WF_vars(NextIter)

\* a call that has started goes on: every await of it settles
FairSpecFull == SpecFull /\ WF_vars(NextFull)

(***************************************************************************)
(* Properties of the ingestion streams                                     *)
(***************************************************************************)
MaxRequests(g) ==
    IF g.fn = "iterateComments" THEN MaxRequestsComments ELSE MaxRequestsPosts

\* C3: whatever the upstream answers, one run of iterateComments issues at
\* most 50 page requests and one run of iteratePosts at most 20, and the
\* stream ends.
C3_CircuitBreaker ==
    /\ [](tr.fetches <= MaxRequests(it))
    /\ <>(it.pc = "done")

\* a comment stream that was answered a continuing page 50 times and ended
C3_Witness ==
    /\ it.fn = "iterateComments"
    /\ it.pc = "done"
    /\ tr.fetches = MaxRequestsComments
    /\ it.requestCount = MaxRequestsComments
    /\ Truthy(it.after)

TextOf(rec) == IF "body" \in DOMAIN rec THEN rec.body ELSE rec.selftext

ValidRecord(rec, cutoff) ==
    /\ TextOf(rec) /= ""
    /\ TextOf(rec) /= Null
    /\ TextOf(rec) \notin {"[deleted]", "[removed]"}
    /\ Len(TextOf(rec)) > 20
    /\ rec.created_utc >= cutoff

\* C4: every record of every batch handed to the consumer has a non-empty
\* body that is not a deleted/removed sentinel, is longer than 20
\* characters, and is not older than the cutoff (now minus maxAge days).
C4_YieldedRecordsValid ==
    it.pc = "yield" =>
        \A i \in 1..Len(batch) : ValidRecord(batch[i], it.cutoffDate)

\* a batch is handed over that kept a record exactly at the cutoff, from a
\* page that also held an invalid record
C4_Witness ==
    /\ it.pc = "yield"
    /\ \E i \in 1..Len(batch) : batch[i].created_utc = it.cutoffDate
    /\ Len(batch) < Len(page.children)

\* C6: once a page request has failed the stream is over: the generator is
\* done without raising, no request is in flight and none was issued after
\* the failed one, and every batch yielded has been taken by the consumer.
C6_FetchErrorEndsStream ==
    tr.failed =>
        /\ it.pc = "done"
        /\ req = NoReq
        /\ tr.fetches = tr.fetchesAtFailure
        /\ cons.batches = tr.yields

\* a request fails after two batches were delivered
C6_Witness ==
    /\ tr.failed
    /\ tr.fetches = 3
    /\ cons.batches = 2

\* C7: the consumer is only ever handed non-empty batches, and the request
\* counter counts every answered page that keeps the stream going, whether
\* or not it yielded: it equals the number of requests already answered.
C7_OnlyNonEmptyBatches ==
    /\ it.pc = "yield" => TotalLen(batch) > 0
    /\ tr.yields + tr.filteredOut <= tr.fetches
    /\ it.pc = "delay" => it.requestCount = tr.fetches
    /\ it.pc \in {"request", "yield"} => it.requestCount = tr.fetches - 1

\* a page whose records were all filtered out: nothing was yielded, the
\* request was counted and the stream goes on
C7_Witness ==
    /\ it.pc = "delay"
    /\ tr.filteredOut = 1
    /\ tr.yields = 0
    /\ it.requestCount = 1

(***************************************************************************)
(* Properties of getFullUserData                                           *)
(***************************************************************************)
\* C5: getFullUserData returns at most maxItems comments (5000 when no cap
\* is passed) and at most 1000 posts.
C5_FullDataCapped ==
    full.pc = "returned" =>
        /\ full.comments <= FullCommentsCap(full.options)
        /\ full.posts <= FullPostsCap

(***************************************************************************)
(* User names                                                              *)
(***************************************************************************)
MaxNameLen == 3

Chars == {" ", "u", "/", "b"}

Names == UNION { [1..n -> Chars] : n \in 0..MaxNameLen }

RECURSIVE TrimStart(_)
TrimStart(s) ==
    IF s /= <<>> /\ Head(s) = " " THEN TrimStart(Tail(s)) ELSE s

RECURSIVE TrimEnd(_)
TrimEnd(s) ==
    IF s /= <<>> /\ s[Len(s)] = " " THEN TrimEnd(SubSeq(s, 1, Len(s) - 1)) ELSE s

\* String.prototype.trim
Trim(s) == TrimEnd(TrimStart(s))

\* replace(/^u\//, '')
StripPrefix(s) ==
    IF Len(s) >= 2 /\ s[1] = "u" /\ s[2] = "/" THEN SubSeq(s, 3, Len(s)) ELSE s

\* username.trim().replace(/^u\//, '')
CleanUsername(username) == StripPrefix(Trim(username))

(***************************************************************************)
(* tokenBudget (services/tokenBudget)                                      *)
(***************************************************************************)
Budgets ==
    { [maxDollar |-> 100, warningThreshold |-> 80, spent |-> 0],
      [maxDollar |-> 100, warningThreshold |-> 80, spent |-> 85] }

\* getStatus() warning only above the threshold
GetBudgetStatusAbove(b) ==
    [spend      |-> b.spent,
     ceiling    |-> b.maxDollar,
     percentage |-> (b.spent * 100) \div b.maxDollar,
     isWarning  |-> b.spent * 100 > b.warningThreshold * b.maxDollar]

GetBudgetStatus(b) ==
    [spend      |-> b.spent,
     ceiling    |-> b.maxDollar,
     percentage |-> (b.spent * 100) \div b.maxDollar,
     isWarning  |-> b.spent * 100 >= b.warningThreshold * b.maxDollar]

(***************************************************************************)
(* What fetch('/api/analyze') can produce                                  *)
(***************************************************************************)
NoFields == [f \in {} |-> 0]

\* findings as the scoring pipeline reports them; timestamps in days
Finding1 == [confidenceScore |-> 80, verified |-> TRUE]
Finding2 == [confidenceScore |-> 60, dates |-> <<495, 497>>]
Finding3 == [dates |-> <<10, 20>>]

Reports ==
    { [summary |-> "no contradictions"],
      [summary |-> "none found", contradictions |-> <<>>],
      [summary |-> "one", contradictions |-> <<Finding1>>],
      [summary |-> "three", contradictions |-> <<Finding1, Finding2, Finding3>>] }

InvalidJson == [kind |-> "invalid"]
NullJson    == [kind |-> "null"]
ObjectJson(v) == [kind |-> "object", value |-> v]

ErrorBodies ==
    { InvalidJson, NullJson, ObjectJson(NoFields),
      ObjectJson([error |-> ""]), ObjectJson([error |-> "User not found"]) }

OkBodies == { InvalidJson, NullJson } \cup { ObjectJson(r) : r \in Reports }

Rejected == [t |-> "reject", message |-> "Failed to fetch"]

AnalyzeOutcomes ==
    { Rejected }
    \cup { [t |-> "response", ok |-> FALSE, status |-> c, body |-> b] :
             c \in {404, 500}, b \in ErrorBodies }
    \cup { [t |-> "response", ok |-> TRUE, status |-> 200, body |-> b] :
             b \in OkBodies }

(***************************************************************************)
(* AnalysisService.analyzeUser                                             *)
(***************************************************************************)
Throw(message) == [threw |-> TRUE, message |-> message]
Return(value)  == [threw |-> FALSE, value |-> value]

(***************************************************************************)
(* JavaScript Numbers: IEEE 754 binary64 with round-to-nearest, ties to    *)
(* even.  A natural number of any size is a sequence of limbs, least       *)
(* significant first; a positive Number is [m, e] with value m * 2^e and m *)
(* of exactly Precision bits; zero has the empty mantissa.  The arithmetic *)
(* is written as functions, which take their arguments by value.           *)
(***************************************************************************)
\* fourteen bits to a limb: the product of two limbs stays below 2^31
LimbBits == 2 * 7

LimbBase == 2 ^ LimbBits

\* the hidden bit and the 52 stored bits of the significand
Precision == 52 + 1

Big == Seq(Nat)

BigOf[n \in Nat] ==
    IF n = 0 THEN <<>> ELSE <<n % LimbBase>> \o BigOf[n \div LimbBase]

BigToInt[x \in Big] ==
    IF x = <<>> THEN 0 ELSE Head(x) + LimbBase * BigToInt[Tail(x)]

\* x without its leading zero limbs
BigTrim[x \in Big] ==
    IF x /= <<>> /\ x[Len(x)] = 0 THEN BigTrim[SubSeq(x, 1, Len(x) - 1)] ELSE x

\* x + y + c
BigAddCarry[x \in Big, y \in Big, c \in Nat] ==
    IF x = <<>> /\ y = <<>> THEN (IF c = 0 THEN <<>> ELSE <<c>>)
    ELSE LET s == (IF x = <<>> THEN 0 ELSE Head(x))
                  + (IF y = <<>> THEN 0 ELSE Head(y)) + c
         IN  <<s % LimbBase>>
             \o BigAddCarry[IF x = <<>> THEN x ELSE Tail(x),
                            IF y = <<>> THEN y ELSE Tail(y), s \div LimbBase]

\* x - y - c for x >= y + c, limb by limb
BigSubBorrow[x \in Big, y \in Big, c \in Nat] ==
    IF x = <<>> THEN <<>>
    ELSE LET d == Head(x) - (IF y = <<>> THEN 0 ELSE Head(y)) - c
         IN  <<IF d < 0 THEN d + LimbBase ELSE d>>
             \o BigSubBorrow[Tail(x), IF y = <<>> THEN y ELSE Tail(y),
                             IF d < 0 THEN 1 ELSE 0]

\* x < y, both without leading zero limbs
BigLess[x \in Big, y \in Big] ==
    IF Len(x) /= Len(y) THEN Len(x) < Len(y)
    ELSE IF x = <<>> THEN FALSE
    ELSE IF x[Len(x)] /= y[Len(y)] THEN x[Len(x)] < y[Len(y)]
    ELSE BigLess[SubSeq(x, 1, Len(x) - 1), SubSeq(y, 1, Len(y) - 1)]

\* x * k + c for 0 <= k <= LimbBase
BigMulSmall[x \in Big, k \in Nat, c \in Nat] ==
    IF x = <<>> THEN (IF c = 0 THEN <<>> ELSE <<c>>)
    ELSE <<(Head(x) * k + c) % LimbBase>>
         \o BigMulSmall[Tail(x), k, (Head(x) * k + c) \div LimbBase]

\* x * y, possibly with leading zero limbs
BigMulLimbs[x \in Big, y \in Big] ==
    IF y = <<>> THEN <<>>
    ELSE BigAddCarry[BigMulSmall[x, Head(y), 0], <<0>> \o BigMulLimbs[x, Tail(y)], 0]

\* x * 2^k
BigShl[x \in Big, k \in Nat] ==
    IF x = <<>> THEN <<>>
    ELSE [i \in 1..(k \div LimbBits) |-> 0]
         \o BigTrim[BigMulSmall[x, 2 ^ (k % LimbBits), 0]]

\* the limbs of floor((r * LimbBase^Len(x) + x) / d) for r < d <= LimbBase,
\* from the most significant limb down
BigDivSmall[x \in Big, d \in Nat, r \in Nat] ==
    IF x = <<>> THEN <<>>
    ELSE BigDivSmall[SubSeq(x, 1, Len(x) - 1), d, (r * LimbBase + x[Len(x)]) % d]
         \o <<(r * LimbBase + x[Len(x)]) \div d>>

\* floor(x / 2^k)
BigShr[x \in Big, k \in Nat] ==
    IF k \div LimbBits >= Len(x) THEN <<>>
    ELSE BigTrim[BigDivSmall[SubSeq(x, k \div LimbBits + 1, Len(x)),
                             2 ^ (k % LimbBits), 0]]

BitLen[n \in Nat] == IF n = 0 THEN 0 ELSE 1 + BitLen[n \div 2]

\* the number of bits of x, x without leading zero limbs
BigBitLen[x \in Big] ==
    IF x = <<>> THEN 0 ELSE (Len(x) - 1) * LimbBits + BitLen[x[Len(x)]]

\* the largest t in lo..hi with d * t <= r
DivDigit[r \in Big, d \in Big, lo \in Nat, hi \in Nat] ==
    IF lo >= hi THEN lo
    ELSE IF BigLess[r, BigTrim[BigMulSmall[d, (lo + hi + 1) \div 2, 0]]]
    THEN DivDigit[r, d, lo, (lo + hi + 1) \div 2 - 1]
    ELSE DivDigit[r, d, (lo + hi + 1) \div 2, hi]

\* the two leading limbs of r as seen from a divisor of len limbs
Leading[r \in Big, len \in Nat] ==
    (IF Len(r) > len THEN r[len + 1] * LimbBase ELSE 0)
    + (IF Len(r) >= len THEN r[len] ELSE 0)

\* the digit floor(r / d) of a long division, r < d * LimbBase: the leading
\* limbs of r and d bound it from both sides
QuotientDigit[r \in Big, d \in Big] ==
    DivDigit[r, d, Leading[r, Len(d)] \div (d[Len(d)] + 1),
             IF Leading[r, Len(d)] \div d[Len(d)] < LimbBase
             THEN Leading[r, Len(d)] \div d[Len(d)] ELSE LimbBase - 1]

\* what is left of the remainder r once d * t is taken from it, with the
\* limb of n below limb i taken in
Remainder[n \in Big, d \in Big, i \in Nat, r \in Big, t \in Nat] ==
    BigTrim[<<n[i - 1]>> \o BigTrim[BigSubBorrow[r, BigMulSmall[d, t, 0], 0]]]

\* the limbs i, i-1, .. 1 of floor(n / d): r is the remainder of the limbs of
\* n from limb i up, and t is its digit
BigDivLimbs[n \in Big, d \in Big, i \in Nat, r \in Big, t \in Nat] ==
    IF i = 1 THEN <<t>>
    ELSE BigDivLimbs[n, d, i - 1, Remainder[n, d, i, r, t],
                     QuotientDigit[Remainder[n, d, i, r, t], d]] \o <<t>>

\* floor(n / d) for d /= 0, both without leading zero limbs
BigDiv[n \in Big, d \in Big] ==
    IF n = <<>> THEN <<>>
    ELSE BigTrim[BigDivLimbs[n, d, Len(n), <<n[Len(n)]>>,
                             QuotientDigit[<<n[Len(n)]>>, d]]]

Number == [m : Big, e : Int]

Zero == [m |-> <<>>, e |-> 0]

\* m * 2^e with m of Precision bits, or of one bit more after a carry
Normal[m \in Big, e \in Int] ==
    IF BigBitLen[m] > Precision THEN [m |-> BigShr[m, 1], e |-> e + 1]
    ELSE [m |-> m, e |-> e]

\* q holds Precision bits and the guard bit below them, of a number worth
\* q * 2^(e - 1) and, when sticky, a little more: half of q to the nearest,
\* ties to even
RoundGuard[q \in Big, e \in Int, sticky \in BOOLEAN] ==
    Normal[BigShr[BigAddCarry[q, <<>>,
                              IF q[1] % 2 = 1 /\ (sticky \/ q[1] % 4 = 3)
                              THEN 1 ELSE 0], 1], e]

\* n of len bits, cut or stretched to Precision bits
RoundBits[n \in Big, e \in Int, sticky \in BOOLEAN, len \in Nat] ==
    IF len = 0 THEN Zero
    ELSE IF len <= Precision
    THEN [m |-> BigShl[n, Precision - len], e |-> e - (Precision - len)]
    ELSE RoundGuard[BigShr[n, len - Precision - 1], e + len - Precision,
                    sticky \/ BigShl[BigShr[n, len - Precision - 1],
                                     len - Precision - 1] /= n]

\* the Number nearest to n * 2^e (to a little more than that when sticky),
\* n without leading zero limbs
RoundToNumber[n \in Big, e \in Int, sticky \in BOOLEAN] ==
    RoundBits[n, e, sticky, BigBitLen[n]]

NumberOf[n \in Nat] == RoundToNumber[BigOf[n], 0, FALSE]

\* a * b
NumberMul[a \in Number, b \in Number] ==
    RoundToNumber[BigTrim[BigMulLimbs[a.m, b.m]], a.e + b.e, FALSE]

\* a + b
NumberAdd[a \in Number, b \in Number] ==
    IF a.m = <<>> THEN b
    ELSE IF b.m = <<>> THEN a
    ELSE RoundToNumber[BigAddCarry[BigShl[a.m, IF a.e > b.e THEN a.e - b.e ELSE 0],
                                   BigShl[b.m, IF b.e > a.e THEN b.e - a.e ELSE 0], 0],
                       IF a.e < b.e THEN a.e ELSE b.e, FALSE]

\* the quotient q of the mantissas of a / b, taken to Precision + 3 bits or
\* more, rounded; sticky when the division left a remainder
NumberDivRound[a \in Number, b \in Number, q \in Big] ==
    RoundToNumber[q, a.e - b.e - (Precision + 3),
                  BigTrim[BigMulLimbs[q, b.m]] /= BigShl[a.m, Precision + 3]]

\* a / b for b /= 0
NumberDiv[a \in Number, b \in Number] ==
    IF a.m = <<>> THEN Zero
    ELSE NumberDivRound[a, b, BigDiv[BigShl[a.m, Precision + 3], b.m]]

\* Math.round(x) for x >= 0: floor(x + 1/2), exactly
MathRound[x \in Number] ==
    IF x.m = <<>> THEN 0
    ELSE IF x.e >= 0 THEN BigToInt[BigShl[x.m, x.e]]
    ELSE BigToInt[BigShr[BigAddCarry[x.m, BigShl[<<1>>, 0 - x.e - 1], 0], 0 - x.e]]

\* the Number that a literal with one decimal denotes: 1.5 is Literal[15]
Literal[tenths \in Nat] == NumberDiv[NumberOf[tenths], NumberOf[10]]

NowDays == NowSec \div DaySec

\* the variant without the default
ScoreNoDefault(contradiction) == Opt(contradiction, "confidenceScore", 0)

\* contradiction.confidenceScore || 50
Score(contradiction) ==
    IF Opt(contradiction, "confidenceScore", 0) /= 0
    THEN contradiction.confidenceScore ELSE 50

\* if (contradiction.verified) weight *= 1.5
WeightVerified(weight, contradiction) ==
    IF Opt(contradiction, "verified", FALSE)
    THEN NumberMul[weight, Literal[15]] ELSE weight

\* twice the age in days of the midpoint of the first two dates; timestamps
\* are in days
AgeInDays2(contradiction) ==
    2 * NowDays - (contradiction.dates[1] + contradiction.dates[2])

\* the recency factor: 1.3 under 30 days, 0.8 over 365, for a finding with
\* two dates or more
WeightRecent(weight, contradiction) ==
    IF "dates" \in DOMAIN contradiction /\ Len(contradiction.dates) >= 2
    THEN IF AgeInDays2(contradiction) < 2 * 30 THEN NumberMul[weight, Literal[13]]
         ELSE IF AgeInDays2(contradiction) > 2 * 365 THEN NumberMul[weight, Literal[8]]
         ELSE weight
    ELSE weight

\* weight *= (confidenceScore / 100)
WeightScored(weight, contradiction) ==
    NumberMul[weight, NumberDiv[NumberOf[Score(contradiction)], NumberOf[100]]]

\* the variant of the weight that leaves the dates out
WeightNoRecency(contradiction) ==
    WeightScored(WeightVerified(NumberOf[1], contradiction), contradiction)

\* the weight of one finding
Weight(contradiction) ==
    WeightScored(WeightRecent(WeightVerified(NumberOf[1], contradiction),
                              contradiction),
                 contradiction)

\* the loop over the findings from the i-th on, and the final
\* Math.round(weightedSum / totalWeight)
RECURSIVE Accumulate(_, _, _, _)

\* one pass of the loop body with its confidenceScore and weight, and the
\* passes after it
Iteration(contradictions, i, weightedSum, totalWeight, confidenceScore, weight) ==
    Accumulate(contradictions, i + 1,
               NumberAdd[weightedSum, NumberMul[NumberOf[confidenceScore], weight]],
               NumberAdd[totalWeight, weight])

Accumulate(contradictions, i, weightedSum, totalWeight) ==
    IF i > Len(contradictions)
    THEN MathRound[NumberDiv[weightedSum, totalWeight]]
    ELSE Iteration(contradictions, i, weightedSum, totalWeight,
                   Score(contradictions[i]), Weight(contradictions[i]))

CalculateWeightedConfidence(contradictions) ==
    IF Len(contradictions) = 0 THEN 0
    ELSE Accumulate(contradictions, 1, Zero, Zero)

\* the check without the trim
UsernameMissingNoTrim(username) == username = <<>>

\* the username check on entry
UsernameMissing(username) == username = <<>> \/ Len(Trim(username)) = 0

\* the Analysis returned from the catch block
FailedAnalysis(username, analyzerUserId, message) ==
    [id                  |-> <<"analysis-failed", NowSec>>,
     targetUsername      |-> username,
     analyzerUserId      |-> analyzerUserId,
     contradictionsFound |-> 0,
     confidenceScore     |-> 0,
     analysisDate        |-> NowSec,
     reportData          |-> [summary |-> "Analysis failed: " \o message,
                              contradictions |-> <<>>,
                              timeline |-> <<>>,
                              stats |-> [totalComments |-> 0, timespan |-> "0 days",
                                         topSubreddits |-> <<>>, sentimentTrend |-> 0]],
     status              |-> "failed"]

\* the Analysis built from the report of a 2xx answer
CompletedAnalysis(cleanUsername, analyzerUserId, reportData) ==
    LET contradictions == Opt(reportData, "contradictions", <<>>)
    IN  [id                  |-> <<"analysis", NowSec, cleanUsername>>,
         targetUsername      |-> cleanUsername,
         analyzerUserId      |-> analyzerUserId,
         contradictionsFound |-> Len(contradictions),
         confidenceScore     |-> CalculateWeightedConfidence(contradictions),
         analysisDate        |-> NowSec,
         reportData          |-> reportData,
         status              |-> "completed"]

\* the handling of the answer of fetch('/api/analyze')
HandleAnalyzeOutcome(cleanUsername, analyzerUserId, o) ==
    IF o.t = "reject" THEN Throw(o.message)
    ELSE IF ~o.ok
         THEN IF o.body.kind = "null"
              THEN Throw("Cannot read properties of null (reading 'error')")
              ELSE LET errorData == IF o.body.kind = "invalid"
                                    THEN [error |-> "Unknown error"]
                                    ELSE o.body.value
                   IN  IF Truthy(Opt(errorData, "error", Null))
                       THEN Throw(errorData.error)
                       ELSE Throw("Analysis failed with status " \o ToString(o.status))
    ELSE IF o.body.kind = "invalid" THEN Throw("Unexpected end of JSON input")
    ELSE IF o.body.kind = "null"
         THEN Throw("Cannot read properties of null (reading 'contradictions')")
    ELSE Return(CompletedAnalysis(cleanUsername, analyzerUserId, o.body.value))

\* the try block of analyzeUser with the budget warning enforced as a stop
AnalyzeUserTryBlocked(username, analyzerUserId, v, budgetQuery, o) ==
    IF UsernameMissing(username)
    THEN [result |-> Throw("Username is required"), sent |-> <<>>]
    ELSE IF budgetQuery.threw
    THEN [result |-> budgetQuery, sent |-> <<>>]
    ELSE IF budgetQuery.value.isWarning
    THEN [result |-> Throw("Budget warning"), sent |-> <<>>]
    ELSE LET cleanUsername == CleanUsername(username)
         IN  [result |-> HandleAnalyzeOutcome(cleanUsername, analyzerUserId, o),
              sent   |-> << [url |-> "/api/analyze",
                             username |-> cleanUsername,
                             verbose |-> v] >>]

\* the try block of analyzeUser: what it throws or returns, and the
\* requests it has issued by then
AnalyzeUserTry(username, analyzerUserId, v, budgetQuery, o) ==
    IF UsernameMissing(username)
    THEN [result |-> Throw("Username is required"), sent |-> <<>>]
    ELSE IF budgetQuery.threw
    THEN [result |-> budgetQuery, sent |-> <<>>]
    ELSE LET cleanUsername == CleanUsername(username)
         IN  [result |-> HandleAnalyzeOutcome(cleanUsername, analyzerUserId, o),
              sent   |-> << [url |-> "/api/analyze",
                             username |-> cleanUsername,
                             verbose |-> v] >>]

\* analyzeUser letting the error of its try block through
AnalyzeUserNoCatch(username, analyzerUserId, v, budgetQuery, o) ==
    LET t == AnalyzeUserTry(username, analyzerUserId, v, budgetQuery, o)
    IN  IF t.result.threw
        THEN [raised |-> TRUE,
              caught |-> t.result.message,
              value  |-> NoAnalysis,
              sent   |-> t.sent]
        ELSE [raised |-> FALSE,
              caught |-> Null,
              value  |-> t.result.value,
              sent   |-> t.sent]

\* analyzeUser: the try block and the catch that turns an error into data
AnalyzeUser(username, analyzerUserId, v, budgetQuery, o) ==
    LET t == AnalyzeUserTry(username, analyzerUserId, v, budgetQuery, o)
    IN  IF t.result.threw
        THEN [raised |-> FALSE,
              caught |-> t.result.message,
              value  |-> FailedAnalysis(username, analyzerUserId, t.result.message),
              sent   |-> t.sent]
        ELSE [raised |-> FALSE,
              caught |-> Null,
              value  |-> t.result.value,
              sent   |-> t.sent]

\* what the budget query can produce in the current budget state
BudgetQueries(b) ==
    { Return(GetBudgetStatus(b)), Throw("budget status unavailable") }

\* what is recorded of an analyzeUser call
CallRecord(username, budgetQuery, o, r) ==
    [pc          |-> IF r.raised THEN "raised" ELSE "returned",
     username    |-> username,
     budgetQuery |-> budgetQuery,
     outcome     |-> o,
     caught      |-> r.caught,
     analysis    |-> r.value]

\* setVerbose(v)
SetVerbose ==
    /\ au.pc = "idle" /\ st.pc = "idle"
    /\ verbose' \in BOOLEAN \ {verbose}
    /\ UNCHANGED <<budget, au, net, st, events>>
    /\ UNCHANGED ingestVars
    /\ UNCHANGED extraVars

\* one call of analyzeUser(username) by a caller, run to its end
AnalyzeUserCall ==
    /\ au.pc = "idle" /\ st.pc = "idle"
    /\ \E username \in Names, bq \in BudgetQueries(budget), o \in AnalyzeOutcomes :
         LET r == AnalyzeUser(username, "1", verbose, bq, o)
         IN  /\ au' = CallRecord(username, bq, o, r)
             /\ net' = net \o r.sent
    /\ UNCHANGED <<budget, verbose, st, events>>
    /\ UNCHANGED ingestVars
    /\ UNCHANGED extraVars

(***************************************************************************)
(* validateUsername and getUserPreview of the analysis service             *)
(***************************************************************************)
ProbeOutcomes ==
    { Rejected,
      [t |-> "response", ok |-> FALSE],
      [t |-> "response", ok |-> TRUE] }

\* validateUsername: response.ok, false when fetch rejects
ValidateUsername(o) == IF o.t = "reject" THEN FALSE ELSE o.ok

Users ==
    { [created_utc |-> NowSec - 10 * DaySec, comment_karma |-> 4000, total_karma |-> 5000],
      [created_utc |-> NowSec - 400 * DaySec, comment_karma |-> 0 - 20, total_karma |-> 0] }

AboutOutcomes ==
    { Rejected,
      [t |-> "response", ok |-> FALSE],
      [t |-> "response", ok |-> TRUE, body |-> InvalidJson] }
    \cup { [t |-> "response", ok |-> TRUE, body |-> ObjectJson([data |-> u])] :
             u \in Users }

SampleOutcomes ==
    { Rejected,
      [t |-> "response", ok |-> FALSE],
      [t |-> "response", ok |-> TRUE, body |-> InvalidJson],
      [t |-> "response", ok |-> TRUE, body |-> ObjectJson([data |-> [children |-> 0]])],
      [t |-> "response", ok |-> TRUE, body |-> ObjectJson([data |-> [children |-> 5]])] }

AbsentPreview ==
    [exists |-> FALSE, karma |-> 0, accountAge |-> <<"Unknown">>,
     recentActivity |-> FALSE, estimatedComments |-> 0]

\* the age bucket of an account of accountAge days
AgeString(accountAge) ==
    IF accountAge < 30 THEN <<accountAge, "days">>
    ELSE IF accountAge < 365 THEN <<accountAge \div 30, "months">>
    ELSE <<accountAge \div 365, "years">>

\* the estimate without its lower clamp
EstimatedCommentsUnclamped(commentKarma, accountAge) ==
    LET d == IF accountAge > 1 THEN accountAge ELSE 1
    IN  IF 2 * commentKarma >= 8000 * d THEN 8000
        ELSE (2 * commentKarma) \div d

\* Math.floor(Math.min(Math.max(commentKarma / Math.max(accountAge, 1) * 2, 100), 8000))
EstimatedComments(commentKarma, accountAge) ==
    LET d == IF accountAge > 1 THEN accountAge ELSE 1
    IN  IF 2 * commentKarma <= 100 * d THEN 100
        ELSE IF 2 * commentKarma >= 8000 * d THEN 8000
        ELSE (2 * commentKarma) \div d

\* a fetch of getUserPreview rejected, or a body it reads did not parse
PreviewFailure(uo, co) ==
    \/ uo.t = "reject"
    \/ uo.ok /\ uo.body.kind /= "object"
    \/ /\ uo.t = "response" /\ uo.ok /\ uo.body.kind = "object"
       /\ (co.t = "reject" \/ (co.ok /\ co.body.kind /= "object"))

\* getUserPreview of the analysis service: the sentinel on every failure
ServiceGetUserPreview(uo, co) ==
    IF uo.t = "reject" THEN AbsentPreview
    ELSE IF ~uo.ok THEN AbsentPreview
    ELSE IF uo.body.kind /= "object" THEN AbsentPreview
    ELSE IF co.t = "reject" THEN AbsentPreview
    ELSE IF co.ok /\ co.body.kind /= "object" THEN AbsentPreview
    ELSE LET user == uo.body.value.data
             hasRecentActivity == co.ok /\ co.body.value.data.children > 0
             accountAge == (NowSec - user.created_utc) \div DaySec
         IN  [exists            |-> TRUE,
              karma             |-> user.total_karma,
              accountAge        |-> AgeString(accountAge),
              recentActivity    |-> hasRecentActivity,
              estimatedComments |-> EstimatedComments(user.comment_karma, accountAge)]

(***************************************************************************)
(* analyzeUserStream: one action per resumption, up to the next yield      *)
(***************************************************************************)
Event(stage, progress) == [stage |-> stage, progress |-> progress]

DataEvent(stage, progress, data) ==
    [stage |-> stage, progress |-> progress, data |-> data]

ErrorEvent(message) == DataEvent("error", 0, [error |-> message])

AboutRequest(cleanUsername) ==
    [url |-> "/api/reddit/user/about.json", username |-> cleanUsername]

SampleRequest(cleanUsername) ==
    [url |-> "/api/reddit/user/comments.json?limit=5", username |-> cleanUsername]

\* the requests of a getUserPreview that takes the name as it is given
PreviewRequestsAsGiven(username, uo) ==
    IF uo.t = "response" /\ uo.ok /\ uo.body.kind = "object"
    THEN <<AboutRequest(username), SampleRequest(username)>>
    ELSE <<AboutRequest(username)>>

\* the requests getUserPreview issues: the sample only after the profile
\* was read
PreviewRequests(username, uo) ==
    IF uo.t = "response" /\ uo.ok /\ uo.body.kind = "object"
    THEN <<AboutRequest(CleanUsername(username)), SampleRequest(CleanUsername(username))>>
    ELSE <<AboutRequest(CleanUsername(username))>>

\* the names given to analyzeUserStream: every short name, and two longer
\* ones with a second prefix or a blank behind the prefix
StreamNames ==
    Names \cup { <<"u", "/", " ", "b">>, <<"u", "/", "u", "/", "b">> }

\* the generator is created and asked for its first event
StreamCall ==
    /\ au.pc = "idle" /\ st.pc = "idle"
    /\ \E username \in StreamNames :
         st' = [st EXCEPT !.pc = "validation0", !.username = CleanUsername(username)]
    /\ events' = <<Event("validation", 0)>>
    /\ UNCHANGED <<budget, verbose, au, net>>
    /\ UNCHANGED ingestVars
    /\ UNCHANGED extraVars

\* validation passing without its closing event
StreamValidateSkipsEvent ==
    /\ st.pc = "validation0"
    /\ \E o \in ProbeOutcomes :
         IF ValidateUsername(o)
         THEN /\ st' = [st EXCEPT !.pc = "validation100", !.valid = TRUE]
              /\ events' = events
         ELSE /\ st' = [st EXCEPT !.pc = "error"]
              /\ events' = Append(events, ErrorEvent("User not found"))
    /\ net' = Append(net, AboutRequest(CleanUsername(st.username)))
    /\ UNCHANGED <<budget, verbose, au>>
    /\ UNCHANGED ingestVars
    /\ UNCHANGED extraVars

\* validateUsername is awaited: 'User not found' is thrown and caught, or
\* validation ends
StreamValidate ==
    /\ st.pc = "validation0"
    /\ \E o \in ProbeOutcomes :
         IF ValidateUsername(o)
         THEN /\ st' = [st EXCEPT !.pc = "validation100", !.valid = TRUE]
              /\ events' = Append(events, Event("validation", 100))
         ELSE /\ st' = [st EXCEPT !.pc = "error"]
              /\ events' = Append(events, ErrorEvent("User not found"))
    /\ net' = Append(net, AboutRequest(CleanUsername(st.username)))
    /\ UNCHANGED <<budget, verbose, au>>
    /\ UNCHANGED ingestVars
    /\ UNCHANGED extraVars

StreamFetching ==
    /\ st.pc = "validation100"
    /\ st' = [st EXCEPT !.pc = "fetching0"]
    /\ events' = Append(events, Event("fetching", 0))
    /\ UNCHANGED <<budget, verbose, au, net>>
    /\ UNCHANGED ingestVars
    /\ UNCHANGED extraVars

\* getUserPreview is awaited and its result yielded
StreamPreview ==
    /\ st.pc = "fetching0"
    /\ \E uo \in AboutOutcomes, co \in SampleOutcomes :
         /\ events' = Append(events,
                             DataEvent("fetching", 50, ServiceGetUserPreview(uo, co)))
         /\ st' = [st EXCEPT !.pc = "fetching50",
                             !.previewFailed = PreviewFailure(uo, co)]
         /\ net' = net \o PreviewRequests(st.username, uo)
    /\ UNCHANGED <<budget, verbose, au>>
    /\ UNCHANGED ingestVars
    /\ UNCHANGED extraVars

StreamAnalyzing ==
    /\ st.pc = "fetching50"
    /\ st' = [st EXCEPT !.pc = "analyzing0"]
    /\ events' = Append(events, Event("analyzing", 0))
    /\ UNCHANGED <<budget, verbose, au, net>>
    /\ UNCHANGED ingestVars
    /\ UNCHANGED extraVars

\* analyzeUser is awaited and its report yielded; what it raises is caught
StreamAnalyze ==
    /\ st.pc = "analyzing0"
    /\ \E bq \in BudgetQueries(budget), o \in AnalyzeOutcomes :
         LET r == AnalyzeUser(st.username, "1", verbose, bq, o)
         IN  /\ au' = CallRecord(st.username, bq, o, r)
             /\ net' = net \o r.sent
             /\ IF r.raised
                THEN /\ st' = [st EXCEPT !.pc = "error"]
                     /\ events' = Append(events, ErrorEvent(r.caught))
                ELSE /\ st' = [st EXCEPT !.pc = "analyzing100"]
                     /\ events' = Append(events,
                                         DataEvent("analyzing", 100, r.value.reportData))
    /\ UNCHANGED <<budget, verbose>>
    /\ UNCHANGED ingestVars
    /\ UNCHANGED extraVars

StreamComplete ==
    /\ st.pc = "analyzing100"
    /\ st' = [st EXCEPT !.pc = "complete"]
    /\ events' = Append(events, DataEvent("complete", 100, au.analysis.reportData))
    /\ UNCHANGED <<budget, verbose, au, net>>
    /\ UNCHANGED ingestVars
    /\ UNCHANGED extraVars

\* a catch that closes only the validation step: after the error event the
\* generator carries on with the fetching stage
StreamEndResumesAfterError ==
    /\ st.pc \in {"complete", "error"}
    /\ IF st.pc = "error"
       THEN /\ st' = [st EXCEPT !.pc = "fetching0"]
            /\ events' = Append(events, Event("fetching", 0))
       ELSE /\ st' = [st EXCEPT !.pc = "done"]
            /\ events' = events
    /\ UNCHANGED <<budget, verbose, au, net>>
    /\ UNCHANGED ingestVars
    /\ UNCHANGED extraVars

\* resumed after complete or after error, the generator returns
StreamEnd ==
    /\ st.pc \in {"complete", "error"}
    /\ st' = [st EXCEPT !.pc = "done"]
    /\ UNCHANGED <<budget, verbose, au, net, events>>
    /\ UNCHANGED ingestVars
    /\ UNCHANGED extraVars

InitClient ==
    /\ it = NoIterator
    /\ page = NoPage
    /\ batch = <<>>
    /\ req = NoReq
    /\ cons = NoConsumer
    /\ tr = NoTrace
    /\ full = NoFull
    /\ budget \in Budgets
    /\ verbose = FALSE
    /\ au = NoCall
    /\ net = <<>>
    /\ st = NoStream
    /\ events = <<>>
    /\ ExtraIdle

\* getCachedAnalysis(username): the clean name is computed and not used
GetCachedAnalysis(entries, username) ==
    LET cleanUsername == CleanUsername(username)
    IN  NoAnalysis

\* getCachedAnalysis for the target of the analyzeUser call that returned
GetCachedAnalysisCall ==
    /\ au.pc = "returned" /\ st.pc = "idle" /\ gc.pc = "idle"
    /\ \E username \in {au.username, CleanUsername(au.username)} :
         gc' = [gc EXCEPT !.pc = "lookup", !.name = username,
                          !.result = GetCachedAnalysis(cache, username),
                          !.before = cache]
    /\ UNCHANGED <<cache, bk, pv>>
    /\ UNCHANGED <<ingestVars, clientVars, bt, mr, rt, cf>>

NextClient ==
    \/ SetVerbose
    \/ AnalyzeUserCall
    \/ StreamCall
    \/ StreamValidate
    \/ StreamFetching
    \/ StreamPreview
    \/ StreamAnalyzing
    \/ StreamAnalyze
    \/ StreamComplete
    \/ StreamEnd
    \/ GetCachedAnalysisCall

SpecClient == InitClient /\ [][NextClient]_vars

(***************************************************************************)
(* Properties of analyzeUser                                               *)
(***************************************************************************)
Blank(name) == \A i \in 1..Len(name) : name[i] = " "

\* a step of the recorded call failed: the name check, the budget query,
\* the request, or the reading of its answer
AnyStepFailed(c) ==
    \/ Blank(c.username)
    \/ c.budgetQuery.threw
    \/ c.outcome.t = "reject"
    \/ c.outcome.t = "response" /\ (~c.outcome.ok \/ c.outcome.body.kind /= "object")

\* the message of the first failure of the recorded call
ErrorMessage(c) ==
    IF Blank(c.username) THEN "Username is required"
    ELSE IF c.budgetQuery.threw THEN c.budgetQuery.message
    ELSE IF c.outcome.t = "reject" THEN c.outcome.message
    ELSE IF /\ ~c.outcome.ok /\ c.outcome.body.kind = "object"
            /\ Opt(c.outcome.body.value, "error", "") /= ""
         THEN c.outcome.body.value.error
    ELSE c.caught

\* C1: analyzeUser never raises: it returns an Analysis whatever the name,
\* the budget query, the request and the parsing of its answer do, and when
\* any of them fails the Analysis is failed, with no findings, confidence 0
\* and a summary holding the error message.
C1_NeverRaises ==
    /\ au.pc /= "raised"
    /\ au.pc = "returned" => au.analysis.status \in {"completed", "failed"}
    /\ (au.pc = "returned" /\ AnyStepFailed(au)) =>
          /\ au.analysis.status = "failed"
          /\ au.analysis.contradictionsFound = 0
          /\ au.analysis.confidenceScore = 0
          /\ au.analysis.reportData.contradictions = <<>>
          /\ au.analysis.reportData.summary = "Analysis failed: " \o ErrorMessage(au)

\* the upstream answers 404 'User not found' for a proper name
C1_Witness ==
    /\ au.pc = "returned"
    /\ au.username = <<"b">>
    /\ au.outcome.t = "response" /\ au.outcome.status = 404
    /\ au.analysis.reportData.summary = "Analysis failed: User not found"

IsAnalyzeRequest(r) == r.url = "/api/analyze"

\* C2: for an empty or whitespace-only name analyzeUser returns the failed
\* Analysis of the name check and issues no analyze request; called
\* directly it issues no request at all.
C2_BlankNameNoRequest ==
    (au.pc /= "idle" /\ Blank(au.username)) =>
        /\ au.pc = "returned"
        /\ au.analysis.status = "failed"
        /\ au.analysis.reportData.summary = "Analysis failed: Username is required"
        /\ \A i \in 1..Len(net) : ~IsAnalyzeRequest(net[i])
        /\ st.pc = "idle" => net = <<>>

\* analyzeUser("  ") has returned
C2_Witness ==
    /\ au.pc = "returned"
    /\ st.pc = "idle"
    /\ au.username = <<" ", " ">>
    /\ au.analysis.status = "failed"

(***************************************************************************)
(* Properties of analyzeUserStream                                         *)
(***************************************************************************)
Rank(stage) ==
    CASE stage = "validation" -> 1
      [] stage = "fetching"   -> 2
      [] stage = "analyzing"  -> 3
      [] stage = "complete"   -> 4
      [] OTHER                -> 5

Terminal(stage) == stage \in {"complete", "error"}

LastEvent == events[Len(events)]

\* C8: the stages are emitted in the order validation, fetching, analyzing,
\* complete, none revisited or skipped; a terminal event (complete or error)
\* is never followed by another event, and a stream that has ended has
\* emitted one.
C8_StageOrder ==
    /\ events /= <<>> => events[1].stage = "validation"
    /\ \A i \in 1..(Len(events) - 1) :
          LET a == events[i].stage
              b == events[i + 1].stage
          IN  /\ ~Terminal(a)
              /\ b = "error" \/ Rank(b) = Rank(a) \/ Rank(b) = Rank(a) + 1
    /\ st.pc = "done" => events /= <<>> /\ Terminal(LastEvent.stage)

\* a stream that ran through all four stages and ended
C8_Witness ==
    /\ st.pc = "done"
    /\ Len(events) = 7
    /\ LastEvent.stage = "complete"

\* event i is the last one of its stage: the next event opens the next stage
ClosesStage(i) ==
    /\ i < Len(events)
    /\ Rank(events[i + 1].stage) = Rank(events[i].stage) + 1

\* event i is the first one of its stage
OpensStage(i) == i = 1 \/ events[i - 1].stage /= events[i].stage

\* C9 as claimed: validation, fetching and analyzing each open at progress 0
\* and close at progress 100, and complete has progress 100.
C9_EveryStageClosesAt100 ==
    \A i \in 1..Len(events) :
        /\ (OpensStage(i) /\ ~Terminal(events[i].stage)) => events[i].progress = 0
        /\ ClosesStage(i) => events[i].progress = 100
        /\ events[i].stage = "complete" => events[i].progress = 100

\* C9 as the code has it: validation and analyzing open at 0 and close at
\* 100 (analyzing with the raw report), fetching opens at 0 and closes at 50
\* with the preview data, and complete has progress 100.
C9_StageProgress ==
    \A i \in 1..Len(events) :
        /\ (OpensStage(i) /\ ~Terminal(events[i].stage)) => events[i].progress = 0
        /\ (ClosesStage(i) /\ events[i].stage = "validation") =>
               events[i].progress = 100
        /\ (ClosesStage(i) /\ events[i].stage = "fetching") =>
               /\ events[i].progress = 50
               /\ "data" \in DOMAIN events[i]
               /\ "exists" \in DOMAIN events[i].data
        /\ (ClosesStage(i) /\ events[i].stage = "analyzing") =>
               /\ events[i].progress = 100
               /\ "data" \in DOMAIN events[i]
               /\ events[i].data = au.analysis.reportData
        /\ events[i].stage = "complete" => events[i].progress = 100

\* all four stages were emitted
C9_Witness ==
    /\ Len(events) = 7
    /\ events[4].stage = "fetching" /\ events[4].data.exists
    /\ events[7].stage = "complete"

\* a failure was met in the validation, the fetching or the analyzing stage
StreamMetFailure ==
    \/ ~st.valid
    \/ st.previewFailed
    \/ au.analysis.status = "failed"

MaxBatch == 2

BatchDelayMs == 2000

BatchNames == { <<"b">>, <<" ">>, <<"u", "/", "u">> }

BatchInputs == UNION { [1..n -> BatchNames] : n \in 0..MaxBatch }

\* the head of `for (const username of usernames)': the analysis of target i
\* starts, or the results are returned when the targets are exhausted
BatchLoopHead(b, i) ==
    IF i <= Len(b.usernames)
    THEN [b EXCEPT !.pc = "analyzing", !.i = i,
                   !.inProgress = b.inProgress + 1, !.started = b.started + 1]
    ELSE [b EXCEPT !.pc = "returned", !.i = i]

\* the analysis of the current target has settled without a delay to follow:
\* the variant in which the next target starts at once
BatchAfterAnalysisNoDelay(b, r) ==
    BatchLoopHead([b EXCEPT !.inProgress = b.inProgress - 1,
                            !.results = IF r.raised THEN b.results
                                        ELSE Append(b.results, r.value)],
                  b.i + 1)

\* the try/catch around one target: the returned analysis is pushed and the
\* delay begins; a raised error is logged and the loop goes to the next target
BatchAfterAnalysis(b, r) ==
    IF r.raised
    THEN BatchLoopHead([b EXCEPT !.inProgress = b.inProgress - 1], b.i + 1)
    ELSE [b EXCEPT !.pc = "delay",
                   !.inProgress = b.inProgress - 1,
                   !.results = Append(b.results, r.value)]

\* analyzeBatch(usernames) is called
AnalyzeBatch ==
    /\ bt.pc = "idle"
    /\ \E usernames \in BatchInputs :
         bt' = BatchLoopHead([NoBatch EXCEPT !.usernames = usernames], 1)
    /\ UNCHANGED clientVars
    /\ UNCHANGED ingestVars
    /\ UNCHANGED <<mr, rt, cf>>
    /\ UNCHANGED storeVars

\* `await this.analyzeUser(username)' settles for the current target
BatchAnalyzed ==
    /\ bt.pc = "analyzing"
    /\ \E bq \in BudgetQueries(budget), o \in AnalyzeOutcomes :
         LET r == AnalyzeUser(bt.usernames[bt.i], "1", verbose, bq, o)
         IN  /\ bt' = BatchAfterAnalysis(bt, r)
             /\ net' = net \o r.sent
    /\ UNCHANGED <<budget, verbose, au, st, events>>
    /\ UNCHANGED ingestVars
    /\ UNCHANGED <<mr, rt, cf>>
    /\ UNCHANGED storeVars

\* the timer of BatchDelayMs fires
BatchDelayElapsed ==
    /\ bt.pc = "delay"
    /\ bt' = BatchLoopHead([bt EXCEPT !.waitedMs = bt.waitedMs + BatchDelayMs], bt.i + 1)
    /\ UNCHANGED clientVars
    /\ UNCHANGED ingestVars
    /\ UNCHANGED <<mr, rt, cf>>
    /\ UNCHANGED storeVars

\* no listing stream is open
IngestIdle ==
    /\ it = NoIterator
    /\ page = NoPage
    /\ batch = <<>>
    /\ req = NoReq
    /\ cons = NoConsumer
    /\ tr = NoTrace
    /\ full = NoFull

\* the services as constructed, nothing called yet
InitIdle ==
    /\ IngestIdle
    /\ ClientIdle
    /\ ExtraIdle

NextBatch ==
    \/ AnalyzeBatch
    \/ BatchAnalyzed
    \/ BatchDelayElapsed

SpecBatch == InitIdle /\ [][NextBatch]_vars

FairSpecBatch == SpecBatch /\ WF_vars(NextBatch)

\* C11 as claimed: analyzeBatch returns only the successes; every Analysis
\* among its results has status completed, and a target whose analysis
\* failed contributes no element.
C11_BatchReturnsOnlySuccesses ==
    \A k \in 1..Len(bt.results) : bt.results[k].status = "completed"

\* the loop of analyzeBatch runs one analysis at a time, in input order, each
\* after the delay that follows the one before
BatchSequential ==
    /\ bt.inProgress <= 1
    /\ bt.pc = "analyzing" =>
          /\ bt.inProgress = 1
          /\ bt.started = bt.i
          /\ bt.waitedMs = (bt.i - 1) * BatchDelayMs
          /\ Len(bt.results) = bt.i - 1
    /\ bt.pc = "delay" => bt.inProgress = 0 /\ Len(bt.results) = bt.i
    /\ bt.pc = "returned" =>
          /\ bt.inProgress = 0
          /\ bt.started = Len(bt.usernames)
          /\ Len(bt.results) = Len(bt.usernames)
    /\ \A k \in 1..Len(bt.results) :
          bt.results[k].targetUsername
              \in {bt.usernames[k], CleanUsername(bt.usernames[k])}

\* C12: analyzeBatch processes its targets strictly sequentially in input
\* order: at most one analysis is in progress, the analysis of target i+1
\* starts only after the analysis of target i has finished and the delay
\* after it has elapsed, every target is attempted and the results are in
\* input order.
C12_BatchSequentialInOrder ==
    /\ []BatchSequential
    /\ <>(bt.pc = "returned")

\* the second target is being analysed after one delay, the first result is
\* that of the first target
C12_Witness ==
    /\ bt.pc = "analyzing"
    /\ bt.i = 2
    /\ bt.waitedMs = BatchDelayMs
    /\ bt.usernames = << <<"u", "/", "u">>, <<"b">> >>
    /\ bt.results[1].targetUsername = <<"u">>

(***************************************************************************)
(* The HTTP client of RedditApiService: axios with axios-retry, makeRequest *)
(***************************************************************************)
Retries == 3

\* a rejection of one HTTP attempt: status 0 stands for no response, axios
\* tells an axios error (which carries its request config) from any other
HttpError(axios, status, code, message) ==
    [t |-> "error", axios |-> axios, status |-> status, code |-> code, message |-> message]

\* what one HTTP attempt can produce
HttpOutcomes ==
    { [t |-> "ok", status |-> 200, data |-> d] : d \in {"listing", "about"} }
    \cup { HttpError(TRUE, s, "ERR_BAD_REQUEST", "Request failed with status code " \o ToString(s)) :
             s \in {404, 429} }
    \cup { HttpError(TRUE, s, "ERR_BAD_RESPONSE", "Request failed with status code " \o ToString(s)) :
             s \in {500, 502, 503, 504} }
    \cup { HttpError(TRUE, 0, "ECONNRESET", "socket hang up"),
           HttpError(TRUE, 0, "ENOTFOUND", "getaddrinfo ENOTFOUND www.reddit.com"),
           HttpError(TRUE, 0, "ECONNABORTED", "timeout of 30000ms exceeded"),
           HttpError(TRUE, 0, "ECONNREFUSED", "connect ECONNREFUSED"),
           HttpError(FALSE, 0, Null, "Invalid URL") }

\* message.includes(needle) over the messages of HttpOutcomes
Includes(message, needle) ==
    \/ needle = "timeout" /\ message = "timeout of 30000ms exceeded"
    \/ needle = "socket hang up" /\ message = "socket hang up"

\* axiosRetry.isNetworkOrIdempotentRequestError for a GET request: a network
\* error, or a retryable error (no response or a 5xx answer, and a 429 answer
\* where the library lists it) on an idempotent method
IsNetworkOrIdempotentRequestError(error, lists429) ==
    \/ /\ error.status = 0
       /\ error.code /= Null
       /\ error.code \notin {"ERR_CANCELED", "ECONNABORTED"}
    \/ /\ error.code /= "ECONNABORTED"
       /\ \/ error.status = 0
          \/ lists429 /\ error.status = 429
          \/ error.status >= 500 /\ error.status <= 599

\* the variant that retries on the listed codes and statuses only
RetryConditionListedOnly(error, lists429) ==
    \/ error.code \in {"ECONNRESET", "ENOTFOUND", "ECONNABORTED"}
    \/ Includes(error.message, "socket hang up")
    \/ error.status \in {503, 502, 504}

\* retryCondition of the axios-retry configuration
RetryCondition(error, lists429) ==
    \/ IsNetworkOrIdempotentRequestError(error, lists429)
    \/ error.code = "ECONNRESET"
    \/ error.code = "ENOTFOUND"
    \/ error.code = "ECONNABORTED"
    \/ Includes(error.message, "socket hang up")
    \/ error.status = 503
    \/ error.status = 502
    \/ error.status = 504

\* the variant of the translation that tests the generic 5xx branch first
TranslateErrorServerFirst(error) ==
    IF error.axios /\ error.status >= 500
    THEN "Server error occurred (" \o ToString(error.status) \o "). Please try again."
    ELSE "Failed to fetch data: " \o error.message

\* the catch block of makeRequest: the message of the Error it throws
TranslateError(error) ==
    IF error.axios /\ error.status = 404 THEN "User not found"
    ELSE IF error.axios /\ error.status = 429
    THEN "Rate limit exceeded. Please try again later."
    ELSE IF error.axios /\ error.status = 503
    THEN "Service temporarily unavailable. Please try again later."
    ELSE IF error.axios /\ error.status /= 0 /\ error.status >= 500
    THEN "Server error occurred (" \o ToString(error.status) \o "). Please try again."
    ELSE IF error.axios /\ (error.code = "ECONNABORTED" \/ Includes(error.message, "timeout"))
    THEN "Request timeout. Please try again."
    ELSE "Failed to fetch data: " \o error.message

\* the variant in which the retry budget allows one more attempt
SettleAttemptOneMoreRetry(r, o) ==
    LET trail == Append(r.trail, o)
    IN  IF o.t = "ok" THEN [r EXCEPT !.pc = "returned", !.trail = trail, !.result = o.data]
        ELSE IF o.axios /\ Len(r.trail) <= Retries /\ RetryCondition(o, r.lists429)
        THEN [r EXCEPT !.trail = trail]
        ELSE [r EXCEPT !.pc = "raised", !.trail = trail, !.result = TranslateError(o)]

\* one HTTP attempt settles with o: makeRequest returns response.data, or
\* axios-retry sends the request again (fewer than Retries retries so far and
\* retryCondition holds), or makeRequest throws the translated Error
SettleAttempt(r, o) ==
    LET trail == Append(r.trail, o)
    IN  IF o.t = "ok" THEN [r EXCEPT !.pc = "returned", !.trail = trail, !.result = o.data]
        ELSE IF o.axios /\ Len(r.trail) < Retries /\ RetryCondition(o, r.lists429)
        THEN [r EXCEPT !.trail = trail]
        ELSE [r EXCEPT !.pc = "raised", !.trail = trail, !.result = TranslateError(o)]

\* makeRequest(url) is called: axiosInstance.get(url) sends the first attempt
MakeRequest ==
    /\ mr.pc = "idle"
    /\ \E lists429 \in BOOLEAN :
         mr' = [pc |-> "attempting", lists429 |-> lists429, trail |-> <<>>, result |-> Null]
    /\ UNCHANGED <<ingestVars, clientVars, bt, rt, cf>>
    /\ UNCHANGED storeVars

\* the attempt in flight settles
HttpAttempt ==
    /\ mr.pc = "attempting"
    /\ \E o \in HttpOutcomes : mr' = SettleAttempt(mr, o)
    /\ UNCHANGED <<ingestVars, clientVars, bt, rt, cf>>
    /\ UNCHANGED storeVars

NextRequest == MakeRequest \/ HttpAttempt

FairSpecRequest == InitIdle /\ [][NextRequest]_vars /\ WF_vars(NextRequest)

\* the errors axios-retry retries according to the listed conditions:
\* connection reset, DNS failure, abort or timeout, HTTP 502, 503, 504
Transient(o) ==
    /\ o.t = "error"
    /\ \/ o.code \in {"ECONNRESET", "ENOTFOUND", "ECONNABORTED"}
       \/ o.status \in {502, 503, 504}

RequestSettled == mr.pc \in {"returned", "raised"}

LastAttempt == mr.trail[Len(mr.trail)]

RequestBounded ==
    /\ mr.pc /= "idle" => Len(mr.trail) <= Retries + 1
    /\ mr.pc = "attempting" => \A k \in 1..Len(mr.trail) : mr.trail[k].t = "error"
    /\ RequestSettled =>
          /\ \A k \in 1..(Len(mr.trail) - 1) : mr.trail[k].t = "error"
          /\ (\E k \in 1..Len(mr.trail) : mr.trail[k].t = "ok") =>
                 mr.pc = "returned" /\ mr.result = LastAttempt.data
          /\ (\A k \in 1..Len(mr.trail) : Transient(mr.trail[k])) =>
                 /\ mr.pc = "raised"
                 /\ Len(mr.trail) = Retries + 1
                 /\ mr.result = TranslateError(LastAttempt)

\* C13: one makeRequest makes at most 4 HTTP attempts (3 retries); if an
\* attempt succeeds it returns that attempt's JSON; if a transient failure
\* persists through all attempts it fails with the translated error; every
\* request settles.
C13_BoundedRetry ==
    /\ []RequestBounded
    /\ (mr.pc = "attempting") ~> RequestSettled

\* four attempts met a transient failure and the request failed
C13_Witness ==
    /\ mr.pc = "raised"
    /\ Len(mr.trail) = 4
    /\ \A k \in 1..4 : mr.trail[k].status = 503
    /\ mr.result = "Service temporarily unavailable. Please try again later."

\* attempt k of the request failed and was the final attempt
FinalFailure(k) == k = Len(mr.trail) /\ mr.pc = "raised"

\* C14 as claimed: only the listed transient conditions are retried; any
\* other failure, such as HTTP 404, 429 or 500, is translated immediately,
\* after exactly one attempt.
C14_RetriesOnlyListedConditions ==
    \A k \in 1..Len(mr.trail) :
        (mr.trail[k].t = "error" /\ ~Transient(mr.trail[k])) => FinalFailure(k)

\* C14 as the code has it: a failed attempt is retried (while retries remain)
\* exactly when it is an axios error that has no HTTP response or carries a
\* 5xx status, 500 included, or carries 429 and the retry library lists 429;
\* HTTP 404 is translated after exactly one attempt.
C14_RetryCondition ==
    \A k \in 1..Len(mr.trail) :
        LET o == mr.trail[k]
            retryable == /\ o.axios
                         /\ \/ o.status = 0
                            \/ o.status >= 500
                            \/ o.status = 429 /\ mr.lists429
        IN  o.t = "error" =>
              /\ o.status = 404 => FinalFailure(k)
              /\ ~retryable => FinalFailure(k)
              /\ (retryable /\ k <= Retries) => ~FinalFailure(k)
              /\ (retryable /\ k = Retries + 1) => FinalFailure(k)

\* an HTTP 500 answer was retried and the HTTP 404 answer that followed was not
C14_Witness ==
    /\ mr.pc = "raised"
    /\ Len(mr.trail) = 2
    /\ mr.trail[1].status = 500
    /\ mr.trail[2].status = 404
    /\ mr.result = "User not found"

\* C15: a failed makeRequest fails with exactly one error, chosen by
\* priority from the last attempt's failure: 404, then 429, then 503, then
\* any other status of 500 or more (with the status), then a timeout or
\* abort, and the generic error wrapping the message for everything else,
\* errors that are not HTTP errors included.
C15_ErrorKindByPriority ==
    mr.pc = "raised" =>
        LET o == LastAttempt
            http == o.axios /\ o.status /= 0
        IN  /\ (http /\ o.status = 404) => mr.result = "User not found"
            /\ (http /\ o.status = 429) =>
                   mr.result = "Rate limit exceeded. Please try again later."
            /\ (http /\ o.status = 503) =>
                   mr.result = "Service temporarily unavailable. Please try again later."
            /\ (http /\ o.status >= 500 /\ o.status /= 503) =>
                   mr.result = "Server error occurred (" \o ToString(o.status)
                                   \o "). Please try again."
            /\ (o.axios /\ o.status = 0 /\ o.code = "ECONNABORTED") =>
                   mr.result = "Request timeout. Please try again."
            /\ (~o.axios \/ (o.status = 0 /\ o.code /= "ECONNABORTED")) =>
                   mr.result = "Failed to fetch data: " \o o.message

\* every attempt timed out and the request failed with the timeout error
C15_Witness ==
    /\ mr.pc = "raised"
    /\ Len(mr.trail) = Retries + 1
    /\ LastAttempt.code = "ECONNABORTED"
    /\ mr.result = "Request timeout. Please try again."

(***************************************************************************)
(* POST /api/analyze                                                       *)
(***************************************************************************)
\* the answer NextResponse.json(body, { status })
Answer(status, body) == [status |-> status, body |-> body]

\* the handler: json is what request.json() gave, userData how
\* redditApi.getFullUserData settled, scored how multiModelPipeline.analyzeUser
\* settled (a thrown value that is no Error has the message Null)
Post(json, userData, scored) ==
    IF json.kind = "invalid" THEN Answer(500, [error |-> "Unexpected token in JSON"])
    ELSE IF json.kind = "null"
    THEN Answer(500, [error |-> "Cannot destructure property 'username' of null"])
    ELSE IF Len(Opt(json.value, "username", <<>>)) = 0
    THEN Answer(400, [error |-> "Username is required"])
    ELSE IF userData.threw THEN Answer(500, [error |-> userData.message])
    ELSE IF userData.value.user = Null THEN Answer(404, [error |-> "User not found"])
    ELSE IF scored.threw
    THEN Answer(500, [error |-> IF scored.message /= Null THEN scored.message
                                ELSE "Analysis failed"])
    ELSE Answer(200, scored.value)

\* how getFullUserData settles for the handler: the about request fails with
\* makeRequest's error, or its body has no data, or the user and the
\* collected comments and posts are returned
UserDataOutcomes ==
    { Throw(TranslateError(o)) : o \in { e \in HttpOutcomes : e.t = "error" } }
    \cup { LET u == GetUserInfo(r)
           IN  IF u.threw THEN Throw(u.value)
               ELSE Return([user |-> u.value, comments |-> 198, posts |-> 99]) :
           r \in UserResponses \ {ErrorResponse} }

\* redditApi.verbose once the handler is past its username check: the
\* singleton's flag is set when the request asks for verbose, and is left as
\* it was otherwise
VerboseAfter(flag, json) ==
    IF json.kind = "object" /\ Len(Opt(json.value, "username", <<>>)) > 0
    THEN flag \/ Opt(json.value, "verbose", FALSE)
    ELSE flag

\* one request to POST /api/analyze, handled to its answer
PostAnalyze ==
    /\ rt.pc = "idle"
    /\ \E json \in { InvalidJson, NullJson, ObjectJson(NoFields) }
                   \cup { ObjectJson([username |-> n]) : n \in Names }
                   \cup { ObjectJson([username |-> n, verbose |-> v]) :
                            n \in Names, v \in BOOLEAN },
          userData \in UserDataOutcomes,
          scored \in { Return(r) : r \in Reports }
                     \cup { Throw("Budget exceeded"), Throw(Null) } :
         rt' = [pc |-> "answered", json |-> json, userData |-> userData,
                scored |-> scored, answer |-> Post(json, userData, scored),
                verbose |-> VerboseAfter(rt.verbose, json)]
    /\ UNCHANGED <<ingestVars, clientVars, bt, mr, cf>>
    /\ UNCHANGED storeVars

SpecRoute == InitIdle /\ [][PostAnalyze]_vars

\* the answer is sent and the module, with its redditApi singleton, waits for
\* the next request
PostAnswered ==
    /\ rt.pc = "answered"
    /\ rt' = [pc |-> "idle", verbose |-> rt.verbose]
    /\ UNCHANGED <<ingestVars, clientVars, bt, mr, cf>>
    /\ UNCHANGED storeVars

NextRoute == PostAnalyze \/ PostAnswered

\* the endpoint handling one request after another
SpecRequests == InitIdle /\ [][NextRoute]_vars

\* the request named a user
UsernameGiven ==
    /\ rt.json.kind = "object"
    /\ Len(Opt(rt.json.value, "username", <<>>)) > 0

\* the user of the request was not found upstream
UserNotFound == rt.userData.threw /\ rt.userData.message = "User not found"

\* C16 as claimed: the request is answered with {error} and status 400 when
\* the username is missing, 404 when the user was not found upstream and 500
\* for every other failure, and with a 2xx status and the report only when
\* ingestion and scoring both succeeded.
C16_StatusByFailure ==
    rt.pc = "answered" =>
        /\ (rt.json.kind = "object" /\ ~UsernameGiven) => rt.answer.status = 400
        /\ (UsernameGiven /\ UserNotFound) => rt.answer.status = 404
        /\ (rt.json.kind /= "object"
            \/ (UsernameGiven /\ rt.userData.threw /\ ~UserNotFound)
            \/ (UsernameGiven /\ ~rt.userData.threw /\ rt.scored.threw)) =>
               rt.answer.status = 500
        /\ rt.answer.status /= 200 => DOMAIN rt.answer.body = {"error"}
        /\ rt.answer.status = 200 =>
               /\ UsernameGiven /\ ~rt.userData.threw /\ ~rt.scored.threw
               /\ rt.answer.body = rt.scored.value

(***************************************************************************)
(* calculateWeightedConfidence over bounded findings lists                 *)
(***************************************************************************)
MaxFindings == 3

\* a finding that has the given fields only
FindingOf(fields, score, verified, dates) ==
    [f \in fields |-> IF f = "confidenceScore" THEN score
                      ELSE IF f = "verified" THEN verified
                      ELSE dates]

\* timestamps in days: one date only, midpoint age 4, 29.5, 30, 365 and 485
DateOptions ==
    { <<495>>, <<495, 497>>, <<470, 471>>, <<470, 470>>, <<135, 135>>, <<10, 20>> }

\* every single finding with a score of 0..100 or none, and the lists of two
\* to MaxFindings findings over a few of them
FindingLists ==
    { <<FindingOf(fields, s, TRUE, d)>> :
        fields \in SUBSET {"confidenceScore", "verified", "dates"},
        s \in 0..100, d \in DateOptions }
    \cup UNION { [1..n -> { FindingOf({"confidenceScore"}, 1, FALSE, <<>>),
                            FindingOf({"confidenceScore"}, 4, FALSE, <<>>),
                            FindingOf({"confidenceScore"}, 79, FALSE, <<>>),
                            FindingOf({"confidenceScore", "verified"}, 50, FALSE, <<>>),
                            FindingOf({"confidenceScore", "dates"}, 52, FALSE, <<495>>),
                            FindingOf({"confidenceScore", "verified", "dates"},
                                      100, TRUE, <<495, 497>>),
                            FindingOf({"confidenceScore", "dates"}, 0, FALSE, <<10, 20>>),
                            FindingOf({"verified", "dates"}, 0, TRUE, <<135, 135>>) }] :
                 n \in 2..MaxFindings }
    \cup { <<>> }

\* calculateWeightedConfidence(contradictions) is called
CalculateConfidence ==
    /\ cf.pc = "idle"
    /\ \E contradictions \in FindingLists :
         cf' = [pc |-> "done", contradictions |-> contradictions,
                result |-> CalculateWeightedConfidence(contradictions)]
    /\ UNCHANGED <<ingestVars, clientVars, bt, mr, rt>>
    /\ UNCHANGED storeVars

SpecConfidence == InitIdle /\ [][CalculateConfidence]_vars

\* C17: the aggregate of the empty list is 0; for every non-empty list with
\* scores in 0..100 every weight is positive, so the total weight is not
\* zero, and the aggregate is an integer between 0 and 100.
C17_AggregateInRange ==
    cf.pc = "done" =>
        /\ cf.contradictions = <<>> => cf.result = 0
        /\ \A i \in 1..Len(cf.contradictions) : Weight(cf.contradictions[i]).m /= <<>>
        /\ cf.result \in 0..100

\* three findings, one of them with the score 0, were aggregated
C17_Witness ==
    /\ cf.pc = "done"
    /\ Len(cf.contradictions) = 3
    /\ cf.contradictions[2] = FindingOf({"confidenceScore", "dates"}, 0, FALSE, <<10, 20>>)
    /\ cf.result > 0

\* C18 as claimed: the aggregate does not depend on the order of the
\* findings; every reordering of the list gives the same result.
C18_OrderInvariant ==
    cf.pc = "done" =>
        \A p \in Permutations(1..Len(cf.contradictions)) :
            CalculateWeightedConfidence(
                [i \in 1..Len(cf.contradictions) |-> cf.contradictions[p[i]]]) = cf.result

\* C19 as claimed: the aggregate of a list of exactly one finding is that
\* finding's confidenceScore, for every score of 0..100 and every
\* combination of the verified flag and the dates.
C19_SingleFindingIsItsScore ==
    (cf.pc = "done" /\ Len(cf.contradictions) = 1
        /\ "confidenceScore" \in DOMAIN cf.contradictions[1]) =>
        cf.result = cf.contradictions[1].confidenceScore

\* the score of a finding as the claim has it: 50 when the field is absent
ClaimedScore(c) ==
    IF "confidenceScore" \in DOMAIN c THEN c.confidenceScore ELSE 50

\* ten thousand times the weight of a finding with the score s, exactly:
\* 1.5 if verified, 1.3 if the midpoint of the first two dates is younger
\* than 30 days, 0.8 if older than 365, times s/100
ExactWeight(c, s) ==
    LET v == IF "verified" \in DOMAIN c /\ c.verified THEN 15 ELSE 10
        r == IF "dates" \notin DOMAIN c \/ Len(c.dates) < 2 THEN 10
             ELSE IF c.dates[1] + c.dates[2] > 2 * (NowDays - 30) THEN 13
             ELSE IF c.dates[1] + c.dates[2] < 2 * (NowDays - 365) THEN 8
             ELSE 10
    IN  v * r * s

RECURSIVE SumFrom(_, _)
SumFrom(xs, i) == IF i > Len(xs) THEN 0 ELSE xs[i] + SumFrom(xs, i + 1)

\* round(num / den), halves upwards
RoundHalfUp(num, den) == (2 * num + den) \div (2 * den)

CacheEntry(entries, key) ==
    IF key \in DOMAIN entries THEN entries[key] ELSE NoAnalysis

\* cacheService.clearAnalysis(key)
ClearAnalysis(entries, key) ==
    [k \in DOMAIN entries \ {key} |-> entries[k]]

\* put(name, analysis)
CachePut(entries, name, analysis) ==
    [k \in DOMAIN entries \cup {CleanUsername(name)} |->
        IF k = CleanUsername(name) THEN analysis ELSE entries[k]]

\* get(name)
CacheGet(entries, name) == CacheEntry(entries, CleanUsername(name))

\* clearUserCache(username) without the strip of the prefix
ClearUserCacheNoStrip(entries, username) ==
    ClearAnalysis(entries, Trim(username))

\* clearUserCache(username)
ClearUserCache(entries, username) ==
    ClearAnalysis(entries, CleanUsername(username))

\* the names given to the cache: every spelling of two targets
CacheNames == { n \in Names : CleanUsername(n) \in {<<"b">>, <<"u">>} }

\* the analyses a component may put under a name
CacheValues(name) ==
    { CompletedAnalysis(CleanUsername(name), "1", r) :
        r \in { [summary |-> "none found", contradictions |-> <<>>],
                [summary |-> "one", contradictions |-> <<Finding1>>] } }

CachePutCall ==
    /\ \E name \in CacheNames : \E analysis \in CacheValues(name) :
         /\ cache' = CachePut(cache, name, analysis)
         /\ gc' = [pc |-> "put", name |-> name, result |-> NoAnalysis,
                   before |-> cache, putName |-> name, putValue |-> analysis]
    /\ UNCHANGED <<bk, pv>>
    /\ UNCHANGED <<ingestVars, clientVars, bt, mr, rt, cf>>

CacheGetCall ==
    /\ \E name \in CacheNames :
         gc' = [gc EXCEPT !.pc = "get", !.name = name,
                          !.result = CacheGet(cache, name), !.before = cache]
    /\ UNCHANGED <<cache, bk, pv>>
    /\ UNCHANGED <<ingestVars, clientVars, bt, mr, rt, cf>>

ClearUserCacheCall ==
    /\ \E username \in CacheNames :
         /\ cache' = ClearUserCache(cache, username)
         /\ gc' = [pc |-> "clear", name |-> username, result |-> NoAnalysis,
                   before |-> cache, putName |-> <<>>, putValue |-> NoAnalysis]
    /\ UNCHANGED <<bk, pv>>
    /\ UNCHANGED <<ingestVars, clientVars, bt, mr, rt, cf>>

NextCache ==
    \/ CachePutCall
    \/ CacheGetCall
    \/ ClearUserCacheCall

SpecCache == InitIdle /\ [][NextCache]_vars

(***************************************************************************)
(* Properties of the result cache                                          *)
(***************************************************************************)
\* C21: after analyzeUser has returned a completed Analysis for a target, a
\* cache lookup for the target's name returns that Analysis.
C21_CompletedAnalysisIsCached ==
    (/\ au.pc = "returned"
     /\ au.analysis.status = "completed"
     /\ gc.pc = "lookup"
     /\ CleanUsername(gc.name) = au.analysis.targetUsername) =>
        /\ gc.result = au.analysis
        /\ CacheGet(cache, gc.name) = au.analysis

C25_WitnessClear ==
    /\ gc.pc = "clear"
    /\ gc.name = <<"u", "/", "b">>
    /\ DOMAIN gc.before = {<<"b">>, <<"u">>}
    /\ DOMAIN cache = {<<"u">>}

(***************************************************************************)
(* Properties of the budget check of analyzeUser                           *)
(***************************************************************************)
\* the budget status that was read, with the other value of isWarning
OtherWarning(budgetQuery) ==
    [budgetQuery EXCEPT !.value.isWarning = ~budgetQuery.value.isWarning]

\* C22: the budget warning is advisory.  With a name given and the budget
\* status read, analyzeUser issues the analysis request whether isWarning
\* is true or false, the Analysis it returns and the request it issues are
\* those of the same call with the other value of isWarning, and the budget
\* state after the call is the one whose status the call read.
C22_WarningIsAdvisory ==
    (/\ au.pc = "returned"
     /\ ~UsernameMissing(au.username)
     /\ ~au.budgetQuery.threw) =>
        LET other == AnalyzeUser(au.username, "1", verbose,
                                 OtherWarning(au.budgetQuery), au.outcome)
        IN  /\ net /= <<>>
            /\ net[Len(net)] = [url |-> "/api/analyze",
                                username |-> CleanUsername(au.username),
                                verbose |-> verbose]
            /\ other.sent = <<net[Len(net)]>>
            /\ other.value = au.analysis
            /\ other.caught = au.caught
            /\ GetBudgetStatus(budget) = au.budgetQuery.value

\* a call that read a warning status and returned a completed Analysis
C22_Witness ==
    /\ au.pc = "returned"
    /\ ~au.budgetQuery.threw
    /\ au.budgetQuery.value.isWarning
    /\ au.budgetQuery.value.percentage = 85
    /\ au.analysis.status = "completed"
    /\ st.pc = "idle"
    /\ Len(net) = 1

(***************************************************************************)
(* The budget tracker (services/tokenBudget) behind setBudget, resetBudget *)
(* and getBudgetStats of the analysis service.  The ceilings and amounts   *)
(* are such that every percentage is a whole number.                       *)
(***************************************************************************)
MaxSpends == 3

Ceilings == {50, 100}
WarningThresholds == {50, 80}
Amounts == {15, 40, 85}

\* tokenBudget.setBudget({maxDollar, warningThreshold}): a fresh state
ConfigureBudget(b, config) ==
    [maxDollar |-> config.maxDollar,
     warningThreshold |-> config.warningThreshold,
     spent |-> 0]

\* setBudget(maxDollar, warningThreshold = 80)
SetBudget(b, args) ==
    ConfigureBudget(b, [maxDollar |-> args.maxDollar,
                        warningThreshold |-> Opt(args, "warningThreshold", 80)])

\* tokenBudget.resetBudget()
ResetBudget(b) == [b EXCEPT !.spent = 0]

\* recordSpend(amount) putting the amount in place of the spend
RecordSpendOverwrite(b, amount) == [b EXCEPT !.spent = amount]

\* recordSpend(amount): one increment, not interleaved with another
RecordSpend(b, amount) == [b EXCEPT !.spent = b.spent + amount]

SetBudgetCall ==
    /\ \E args \in [maxDollar : Ceilings]
                   \cup [maxDollar : Ceilings, warningThreshold : WarningThresholds] :
         budget' = SetBudget(budget, args)
    /\ bk' = [NoPeriod EXCEPT !.last = "configure"]
    /\ UNCHANGED <<verbose, au, net, st, events>>
    /\ UNCHANGED <<cache, gc, pv>>
    /\ UNCHANGED <<ingestVars, bt, mr, rt, cf>>

ResetBudgetCall ==
    /\ budget.spent > 0
    /\ budget' = ResetBudget(budget)
    /\ bk' = [NoPeriod EXCEPT !.last = "reset", !.before = budget]
    /\ UNCHANGED <<verbose, au, net, st, events>>
    /\ UNCHANGED <<cache, gc, pv>>
    /\ UNCHANGED <<ingestVars, bt, mr, rt, cf>>

\* one of the two parallel analyses records an amount
RecordSpendCall ==
    /\ bk.calls < MaxSpends
    /\ \E run \in 1..2, amount \in Amounts :
         /\ budget' = RecordSpend(budget, amount)
         /\ bk' = [NoPeriod EXCEPT !.last = "record",
                                  !.calls = bk.calls + 1,
                                  !.recorded = [bk.recorded EXCEPT ![run] = @ + amount]]
    /\ UNCHANGED <<verbose, au, net, st, events>>
    /\ UNCHANGED <<cache, gc, pv>>
    /\ UNCHANGED <<ingestVars, bt, mr, rt, cf>>

\* getBudgetStats().budget
GetBudgetStatsCall ==
    /\ bk' = [bk EXCEPT !.last = "status",
                        !.status = GetBudgetStatus(budget)]
    /\ UNCHANGED clientVars
    /\ UNCHANGED <<cache, gc, pv>>
    /\ UNCHANGED <<ingestVars, bt, mr, rt, cf>>

NextBudget ==
    \/ SetBudgetCall
    \/ ResetBudgetCall
    \/ RecordSpendCall
    \/ GetBudgetStatsCall

SpecBudget == InitIdle /\ [][NextBudget]_vars

(***************************************************************************)
(* Properties of the budget tracker                                        *)
(***************************************************************************)
\* C23: the status that was read has percentage = spend / ceiling * 100 and
\* isWarning exactly when the percentage is at least the warning threshold;
\* with ceiling 100, threshold 80 and 85 spent it reads 85 and a warning;
\* a reset leaves the spend 0 and the ceiling and threshold as they were.
C23_StatusAndReset ==
    /\ bk.last = "status" =>
         /\ bk.status.spend = budget.spent
         /\ bk.status.ceiling = budget.maxDollar
         /\ bk.status.percentage * budget.maxDollar = budget.spent * 100
         /\ bk.status.isWarning <=>
                bk.status.percentage >= budget.warningThreshold
    /\ (/\ bk.last = "status"
        /\ budget = [maxDollar |-> 100, warningThreshold |-> 80, spent |-> 85]) =>
           /\ bk.status.percentage = 85
           /\ bk.status.isWarning
    /\ bk.last = "reset" =>
         /\ budget.spent = 0
         /\ budget.maxDollar = bk.before.maxDollar
         /\ budget.warningThreshold = bk.before.warningThreshold

\* the status read after setBudget(100) and a spend of 85
C23_WitnessStatus ==
    /\ bk.last = "status"
    /\ budget = [maxDollar |-> 100, warningThreshold |-> 80, spent |-> 85]
    /\ bk.status = [spend |-> 85, ceiling |-> 100, percentage |-> 85,
                    isWarning |-> TRUE]

\* a reset of a budget of 50 with threshold 50 that had 40 spent
C23_WitnessReset ==
    /\ bk.last = "reset"
    /\ bk.before = [maxDollar |-> 50, warningThreshold |-> 50, spent |-> 40]
    /\ budget = [maxDollar |-> 50, warningThreshold |-> 50, spent |-> 0]

SampleMaxItems == 20

\* profiles at the edges of the age buckets and of the volume clamp
PreviewUsers ==
    Users \cup
    { [created_utc |-> NowSec + 3600, comment_karma |-> 300, total_karma |-> 300],
      [created_utc |-> NowSec - 3600, comment_karma |-> 300, total_karma |-> 310],
      [created_utc |-> NowSec - 29 * DaySec, comment_karma |-> 1500, total_karma |-> 1600],
      [created_utc |-> NowSec - 30 * DaySec, comment_karma |-> 0, total_karma |-> 7],
      [created_utc |-> NowSec - 364 * DaySec, comment_karma |-> 0 - 20, total_karma |-> 1],
      [created_utc |-> NowSec - 365 * DaySec, comment_karma |-> 2000000, total_karma |-> 2000001] }

\* what the upstream can answer to getUserInfo's about.json request
PreviewUserResponses ==
    { ErrorResponse, NoDataResponse }
    \cup { [t |-> "user", name |-> "bob", data |-> u] : u \in PreviewUsers }

\* what fetch can answer to the service's about.json request
PreviewAboutOutcomes ==
    AboutOutcomes
    \cup { [t |-> "response", ok |-> TRUE, body |-> ObjectJson([data |-> u])] :
             u \in PreviewUsers }

\* the preview of a profile that was read, with a sample of sampleLen items
PreviewOf(user, sampleLen) ==
    [exists            |-> TRUE,
     karma             |-> user.total_karma,
     accountAge        |-> AgeString((NowSec - user.created_utc) \div DaySec),
     recentActivity    |-> sampleLen > 0,
     estimatedComments |-> EstimatedComments(user.comment_karma,
                                             (NowSec - user.created_utc) \div DaySec)]

\* getUserPreview letting an error through
PreviewNoCatch(p) == [p EXCEPT !.pc = "raised"]

\* the catch of getUserPreview: the sentinel
PreviewCatch(p) == [p EXCEPT !.pc = "returned", !.result = AbsentPreview]

\* redditApi.getUserPreview(username) is called: getUserInfo is awaited
ApiPreviewCall ==
    /\ pv.pc = "idle" /\ it = NoIterator
    /\ pv' = [pv EXCEPT !.pc = "userInfo", !.impl = "api"]
    /\ req' = [path |-> "about.json"]
    /\ UNCHANGED <<it, page, batch, cons, tr, full>>
    /\ UNCHANGED clientVars
    /\ UNCHANGED <<bt, mr, rt, cf, cache, gc, bk>>

\* getUserInfo settles: its error lands in the catch, or the sample starts
ApiPreviewUserInfo ==
    /\ pv.pc = "userInfo"
    /\ \E r \in PreviewUserResponses :
         IF GetUserInfo(r).threw
         THEN /\ pv' = PreviewCatch([pv EXCEPT !.failed = "profile", !.how = r.t])
              /\ req' = NoReq
              /\ UNCHANGED <<it, tr>>
         ELSE /\ pv' = [pv EXCEPT !.pc = "sample", !.user = r.data]
              /\ IssueRequest(LoopHead(IterateCommentsInit([maxItems |-> SampleMaxItems])),
                              NoTrace)
    /\ UNCHANGED <<page, batch, cons, full>>
    /\ UNCHANGED clientVars
    /\ UNCHANGED <<bt, mr, rt, cf, cache, gc, bk>>

\* the first batch arrives: push it, break, and return the preview
ApiPreviewBatch ==
    /\ pv.pc = "sample"
    /\ it.pc = "yield"
    /\ pv' = [pv EXCEPT !.pc = "returned",
                        !.result = PreviewOf(pv.user, TotalLen(batch))]
    /\ it' = [it EXCEPT !.pc = "done"]
    /\ page' = NoPage
    /\ batch' = <<>>
    /\ UNCHANGED <<req, cons, tr, full>>
    /\ UNCHANGED clientVars
    /\ UNCHANGED <<bt, mr, rt, cf, cache, gc, bk>>

\* the stream ends without a batch: return the preview of an empty sample
ApiPreviewNoBatch ==
    /\ pv.pc = "sample"
    /\ it.pc = "done"
    /\ pv' = [pv EXCEPT !.pc = "returned",
                        !.failed = IF tr.failed THEN "sample" ELSE "none",
                        !.how = IF tr.failed THEN "error" ELSE "none",
                        !.result = PreviewOf(pv.user, 0)]
    /\ UNCHANGED <<it, page, batch, req, cons, tr, full>>
    /\ UNCHANGED clientVars
    /\ UNCHANGED <<bt, mr, rt, cf, cache, gc, bk>>

\* which fetch of the service's getUserPreview failed
ServiceFailed(uo, co) ==
    IF uo.t = "reject" \/ ~uo.ok \/ uo.body.kind /= "object" THEN "profile"
    ELSE IF co.t = "reject" \/ ~co.ok \/ co.body.kind /= "object" THEN "sample"
    ELSE "none"

\* and how: the fetch rejected, a non-2xx status, or a body that is not JSON
ServiceHow(o) ==
    IF o.t = "reject" THEN "reject"
    ELSE IF ~o.ok THEN "status"
    ELSE IF o.body.kind /= "object" THEN "body"
    ELSE "none"

\* one call of the service's getUserPreview(username), run to its end
ServicePreviewCall ==
    /\ pv.pc = "idle" /\ it = NoIterator
    /\ \E uo \in PreviewAboutOutcomes, co \in SampleOutcomes :
         pv' = [pc     |-> "returned",
                impl   |-> "service",
                user   |-> IF ServiceFailed(uo, co) = "profile"
                           THEN NoPreview.user
                           ELSE [created_utc   |-> uo.body.value.data.created_utc,
                                 comment_karma |-> uo.body.value.data.comment_karma,
                                 total_karma   |-> uo.body.value.data.total_karma],
                failed |-> ServiceFailed(uo, co),
                how    |-> IF ServiceFailed(uo, co) = "profile"
                           THEN ServiceHow(uo)
                           ELSE ServiceHow(co),
                result |-> ServiceGetUserPreview(uo, co)]
    /\ UNCHANGED ingestVars
    /\ UNCHANGED clientVars
    /\ UNCHANGED <<bt, mr, rt, cf, cache, gc, bk>>

NextPreview ==
    \/ ApiPreviewCall
    \/ ApiPreviewUserInfo
    \/ Response
    \/ DelayElapsed
    \/ ApiPreviewBatch
    \/ ApiPreviewNoBatch
    \/ ServicePreviewCall

SpecPreview == InitIdle /\ [][NextPreview]_vars

C27_VolumeAndAgeBucket ==
    (pv.pc = "returned" /\ pv.result.exists) =>
        LET age == (NowSec - pv.user.created_utc) \div DaySec
            d == IF age >= 1 THEN age ELSE 1
            k == 2 * pv.user.comment_karma
            e == pv.result.estimatedComments
        IN  /\ e \in 100..8000
            /\ k < 100 * d => e = 100
            /\ k >= 8000 * d => e = 8000
            /\ (100 * d <= k /\ k < 8000 * d) => (e * d <= k /\ k < (e + 1) * d)
            /\ pv.result.accountAge[2] =
                   IF age < 30 THEN "days"
                   ELSE IF age <= 364 THEN "months" ELSE "years"
            /\ pv.result.accountAge[2] = "days" => pv.result.accountAge[1] = age
            /\ pv.result.accountAge[2] = "months" =>
                   (pv.result.accountAge[1] * 30 <= age
                    /\ age < (pv.result.accountAge[1] + 1) * 30)
            /\ pv.result.accountAge[2] = "years" =>
                   (pv.result.accountAge[1] * 365 <= age
                    /\ age < (pv.result.accountAge[1] + 1) * 365)

\* an account of 29 days with comment karma 1500: 3000 / 29 = 103.4...
C27_Witness ==
    /\ pv.pc = "returned"
    /\ pv.impl = "service"
    /\ pv.user.comment_karma = 1500
    /\ pv.result.estimatedComments = 103
    /\ pv.result.accountAge = <<29, "days">>

(***************************************************************************)
(* Properties of the paging of one stream                                  *)
(***************************************************************************)
\* C28: a stream whose last answer was a listing page and whose consumer
\* did not break has stopped for one of three reasons: the items reached
\* maxItems, the requests reached the ceiling, or that page had neither a
\* forward nor a backward cursor.  So a page of comments or of posts with a
\* cursor left and neither bound reached is followed by another fetch.
C28_ThreeStopConditions ==
    (it.pc = "done" /\ tr.answer = "page" /\ ~cons.broke) =>
        \/ it.totalFetched >= it.maxItems
        \/ it.requestCount >= MaxRequests(it)
        \/ (~Truthy(tr.after) /\ ~Truthy(tr.before))

ListingInFlight == IF req.path \in {"comments.json", "submitted.json"}
                   THEN req.path ELSE "none"

\* C30: getFullUserData reads the profile before it fetches any listing
\* page, fetches every comment page before the first post page, and fails
\* without a listing fetch when the profile lookup fails.  A fetch error in
\* a listing never fails the call: the call goes on and returns what it
\* has collected.
C30_FixedOrder ==
    /\ [](full.pc \in {"idle", "userInfo", "threw"} =>
              (ListingInFlight = "none" /\ tr = NoTrace /\ it = NoIterator
               /\ full.comments = 0 /\ full.posts = 0))
    /\ [](full.pc \in {"comments", "posts", "returned"} => full.user /= Null)
    /\ [](ListingInFlight = "comments.json" => (full.pc = "comments" /\ full.posts = 0))
    /\ [](ListingInFlight = "submitted.json" => full.pc = "posts")
    /\ [][/\ full.pc = "userInfo" => full'.pc \in {"userInfo", "threw", "comments"}
          /\ full.pc = "comments" => full'.pc \in {"comments", "posts"}
          /\ full.pc = "posts" => full'.pc \in {"posts", "returned"}
          /\ full.pc = "threw" => full'.pc = "threw"
          /\ full'.pc = "threw" => full.pc \in {"userInfo", "threw"}]_vars
    /\ [](tr.failed => full.pc \in {"comments", "posts", "returned"})
    /\ [][(tr.failed /\ full.pc = "comments") => full'.pc \in {"comments", "posts"}]_vars
    /\ (full.pc \in {"comments", "posts"}) ~> (full.pc = "returned")

\* the post listing met a fetch error after its first batch and the call
\* returned the 99 comments and 99 posts it had collected
C30_Witness ==
    /\ full.pc = "returned"
    /\ tr.failed
    /\ tr.fetches = 2
    /\ full.comments = 99
    /\ full.posts = 99

(***************************************************************************)
(* Properties of early termination                                         *)
(***************************************************************************)
\* C31: once the consumer has stopped iterating after a batch, the stream
\* fetches no further page and starts no further delay: the generator is
\* finished, no request is in flight, and its counts of fetches and delays
\* stay as they were.
C31_NoFetchAfterBreak ==
    /\ [](cons.broke => (it.pc = "done" /\ req = NoReq))
    /\ [][cons.broke =>
            (tr'.fetches = tr.fetches /\ tr'.delays = tr.delays /\ req' = NoReq)]_vars
    /\ [][(cons'.broke /\ ~cons.broke) =>
            (tr'.fetches = tr.fetches /\ tr'.delays = tr.delays)]_vars

\* the consumer broke after the first batch of a page that had a forward
\* cursor, with neither bound of the stream reached
C31_Witness ==
    /\ cons.broke
    /\ cons.batches = 1
    /\ tr.fetches = 1
    /\ tr.delays = 0
    /\ tr.after = "t1_next"
    /\ it.totalFetched < it.maxItems
    /\ it.requestCount < MaxRequests(it)

(***************************************************************************)
(* Properties of the end of analyzeUserStream                              *)
(***************************************************************************)
\* C32: a stream that ends with the complete event ran an analyzeUser that
\* returned status 'completed', and a stream whose analyzeUser returned
\* status 'failed' ends with the error event.
C32_CompleteOnlyForCompleted ==
    (st.pc = "done" /\ au.pc = "returned") =>
        /\ LastEvent.stage = "complete" => au.analysis.status = "completed"
        /\ au.analysis.status = "failed" => LastEvent.stage = "error"

(***************************************************************************)
(* Properties of the name normalization                                    *)
(***************************************************************************)
\* C33: normalizing a normalized name changes nothing, so the name that
\* analyzeUserStream validates and previews is the name its analyzeUser
\* step sends to the analysis.
C33_NormalizationIdempotent ==
    /\ CleanUsername(st.username) = st.username
    /\ st.pc /= "idle" =>
         \A i \in 1..Len(net) :
            net[i].url = "/api/analyze" => net[i].username = st.username

\* the name begins with a blank or with another prefix
NormalizesFurther(name) ==
    /\ name /= <<>>
    /\ \/ Head(name) = " "
       \/ (Len(name) >= 2 /\ name[1] = "u" /\ name[2] = "/")

\* C33 as the code has it: normalizing a normalized name changes it exactly
\* when it begins with a blank or with another 'u/'; analyzeUserStream
\* normalizes its input once, and its validation, preview and analyzeUser
\* steps each normalize that name once more, so every request of the stream
\* carries the same target name.
C33_SameTargetName ==
    /\ (CleanUsername(st.username) = st.username) <=> ~NormalizesFurther(st.username)
    /\ st.pc /= "idle" =>
         \A i \in 1..Len(net) : net[i].username = CleanUsername(st.username)

\* the stream was given 'u/u/b': it keeps 'u/b', and its four requests and
\* the Analysis are for 'b'
C33_Witness ==
    /\ st.pc = "done"
    /\ st.username = <<"u", "/", "b">>
    /\ Len(net) = 4
    /\ net[1].username = <<"b">>
    /\ net[4].url = "/api/analyze"
    /\ au.analysis.status = "completed"
    /\ au.analysis.targetUsername = <<"b">>

(***************************************************************************)
(* Properties of the name check of analyzeUser                             *)
(***************************************************************************)
\* C34: no analyze request carries an empty username: a call whose name
\* normalizes to the empty name is rejected with 'Username is required' and
\* sends nothing, and every request that is sent names a target.
C34_NoEmptyAnalyzeRequest ==
    /\ \A i \in 1..Len(net) :
          net[i].url = "/api/analyze" => net[i].username /= <<>>
    /\ (au.pc = "returned" /\ CleanUsername(au.username) = <<>>) =>
          /\ au.caught = "Username is required"
          /\ \A i \in 1..Len(net) : net[i].url /= "/api/analyze"

(***************************************************************************)
(* Properties of the verbose flag of POST /api/analyze                     *)
(***************************************************************************)
\* C35: verbose mode is per request: once the endpoint is past the username
\* check of a request, the shared Reddit client's verbose flag equals that
\* request's verbose parameter, whatever requests were handled before it.
C35_VerbosePerRequest ==
    (rt.pc = "answered" /\ UsernameGiven) =>
        rt.verbose = Opt(rt.json.value, "verbose", FALSE)

====
